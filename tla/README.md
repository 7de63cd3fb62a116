# Thomas: a verification project

TLA+ modules, TLC configurations and TLAPS proofs for the stateful core of
Thomas (`src/thomas/`, version 0.19.37). Thomas is a local assistant with six
surfaces (Chat, Build, Work, Browser, Models, Extensions) on one aiohttp server.
Most of its files are surfaces; the parts that keep durable state and race with
themselves are few. This project models those, beginning with the two where a
mistake costs something that cannot be taken back: the engine that runs
autonomous jobs, and the ledger that limits what the model calls of a user cost.
Then come the three parts that start work by themselves or report on it: the Work
automations that delegate to the engine, the cron scheduler, and the records of the
background tasks a chat starts.

1. [Inventory](#1-inventory)
2. [Modules](#2-modules-and-how-they-correspond-to-the-code)
3. [Runs](#3-runs)
4. [Fairness](#4-fairness)
5. [Proofs](#5-proofs)
6. [Findings](#6-where-the-code-and-its-words-disagree)
7. [Not modelled](#7-what-the-models-leave-out)
8. [Plan](#8-plan)

## 1. Inventory

### Mission: the autonomy engine (`marketplace/autonomy/`) - modelled

| part | state | operations |
|---|---|---|
| store (`store.py`, `models.py`) | SQLite, autocommit, one connection: `jobs` (status, cancelled, attempts, approval flags, lock, next_run_at), `approvals` | `create_job`, `claim_due_jobs`, `reap_stale_running`, `set_job_status`, `cancel_job`, `decide_approval` |
| engine (`engine.py`) | asyncio: one scheduler task, a batch of `_run_job` tasks behind a semaphore | `_run_loop` (reap, claim, gather), `_run_job`, `_handle_success`, `_handle_failure` |
| policy, schedule (`policy.py`, `scheduler.py`) | none | `decision_for_job`, `compute_next_run` |
| executor (`executor.py`) | none | `enqueue_plan`: a planner's result becomes jobs and approvals |
| requests (`server/routes/mission_*.py`, `workspace_specialist_actions.py`) | none | create, cancel, run now, requeue, decide an approval, stop an objective |

Everything is on one event loop and the store is synchronous, so the code
between two awaits is atomic; what interleaves is what happens across an
`await`: a task waiting for the semaphore with a row it claimed earlier, a
handler that runs for minutes while requests move its row, locks that expire
meanwhile, a batch half of which has raised. A crash can fall between any two
statements, because each commits by itself.

Correct means: a job runs once at a time, never without the approval its risk
demands, never anew after it was cancelled; a row left running by a crash is
found again; a recurring job never dies of its failures; people are asked once.

### Chat token budget - modelled but for a few paths

| part | state | operations |
|---|---|---|
| ledger (`server/chat_budget_ledger.py`, `chat_budget_store.py`) | SQLite: `reservations`, `settlements`, `session_usage`, `daily_usage` | `reserve`, `settle`, `release`, each one `BEGIN IMMEDIATE` transaction in a worker thread |
| scope (`server/chat_budget_scope.py`) | one per turn: `prior`, `charged_tokens`, the open reservation | `preflight`, `begin_attempt`, `finish_attempt`, `abort_attempt`, `reconcile_unscoped_usage` |
| clients (`core/llm_budget.py`) | the token counters of a provider client | wrap every provider call in an attempt |
| routes (`server/routes/chat_v2.py`, `chat_v2_budget.py`) | `token_spend` of the saved session | preflight before a turn, reconcile and sync after it; the saves of the turn itself |
| other writers of a session (`chat_branch_routes.py`, `chat_v2_announcements.py`, `chat_v2_session_routes.py`) | the same | branch (copies the spend under a new id), announce and truncate (save without it) |

The transactions are atomic, also across processes; a turn is a dozen of them,
and other turns of the same user, cancellation (with `asyncio.shield` around some
awaits and not around others), the six-hour lease, midnight and crashes
interleave between them.

Correct means: what is spent and what is held never exceed the budget together;
no token is charged twice or lost from the books; nothing is held for ever.

### Work jobs and delegation - modelled but for what delegates nothing

| part | state | operations |
|---|---|---|
| app and jobs (`work/store.py`, `store_jobs.py`) | status of the app and of each job, one JSON document, a lock around each mutation | `update_app`, `archive_app`, `set_job_status` |
| automations (`work/store_automations.py`) | per automation: enabled, trigger, delegation state, Mission ids, a receipt per event | `create`, `update`, `delete`, `claim_automation_submission`, `mark_automation_delegated`, `arm_event_automation`, `claim_` / `fail_` / `record_event_delegation`, `reconcile_automation_mission` |
| routes (`server/routes/work.py`, `work_mission_runtime.py`) | what a request in flight remembers; a lock per event id | deploy, deliver an event, pause, archive, edit, delete, refresh |
| wiring (`server/app_routes_init.py`) | the jobs of the Mission engine | submit, status, cancel: callables that may or may not suspend, and may be missing |

A mutation saves before it replaces the state in memory, so each is atomic. A
request is several of them with Mission calls in between; other requests, failed
saves and crashes fall into the gaps. Missions end, and are revived through the
Mission routes, without Work being told.

Correct means: a delivery starts one Mission, however often it is sent; a stopped
job lists no live Mission; a running Mission stays in reach of a stop.

### Task scheduler - modelled

| part | state | operations |
|---|---|---|
| scheduler (`core/scheduler.py`) | the task list in memory, its JSON file, an instance lock file, a polling thread, a pool | load, `start`, `stop`, `_poll_once`, `_submit_execution`, `add_task`, `remove_task`, `pause_task`, `resume_task`, `update_task`, `run_now` |
| callers (`schedule_routes.py`, `cli/commands/cron.py`, `schedule_executor.py`) | their own scheduler object | the commands; the run of a task |

One `RLock` makes a command or a poll atomic within a process, except that both read
the clock before they wait for it. Between processes there is only the instance lock, and it guards polling and not the file: every
process saves its whole list. `stop()` waits two seconds for a poll and goes on
without it.

Correct means: an occurrence runs once, in order, across restarts, crashes and
failed saves; one process polls; a backlog ends; what was skipped stays skipped.

### Task-bot executions - modelled but for the list file and the other workers

| part | state | operations |
|---|---|---|
| record (`core/task_bot_runtime.py`, `task_bot_states.py`, `task_bot_records.py`) | one JSON file per execution: state, proof, cancel flag, pending instructions, heartbeat | `create_`, `update_`, `steer_`, `fail_`, `cancel_`, `complete_execution`, `attach_proof`, `request_cancel`, `take_pending_instructions`, `mark_verified` |
| worker and supervisor (`server/chat_delegation_runner.py`) | a thread; a coroutine that looks at the record every second | attempts, progress, recovery, completion; stop and timeout |
| follow-ups (`server/chat_delegation_session.py`) | none | steer, stop |
| sweep (`server/stale_execution_sweep.py`) | the time of the boot | fail what an earlier process left or what went quiet |

Four writers rewrite the record whole, each after reading it, without a lock.

Correct means: completed is proved and cancelled was asked for, whatever
overlaps; instructions are not lost; a run the user ended stays ended; the sweep
leaves living runs alone; every run ends.

### Parts that are not modelled

| component | state and hard behaviour | properties it will need |
|---|---|---|
| Execution cancellation (`marketplace/autonomy/execution_cancellation.py`) | live asyncio tasks by job id; not wired to the engine at this commit | a cancelled job's task ends and is forgotten |
| Workspace sync (`core/workspace_sync_*.py`) | three-way comparison and its base | no edit is lost |
| Agent swarm, subtask graph, workflow engine | in-memory dependency graphs, retries, dead letters | every task whose dependencies hold is run once |
| Evolve supervisor, retry and cooldowns, the canvas workers of Chat delegation, agent loop, companion, database internals, notifications, heartbeat | single writer, or driven by what models and providers answer | see the notes in `PROJECT.json` |

Outside the survey: `_archived`, `_vendor`, the web and browser assets, the site,
extensions and generated files.

How the parts interact: requests and the engine share nothing but the `jobs` and
`approvals` tables; a handler of the engine is an agent turn, whose provider calls go
through a budget scope. Work submits its jobs as Missions, and learns how they fare
only by asking: `WorkDelegation` therefore has the Missions as the environment that
`MissionEngine` allows (they run, end, and are revived by run-now or requeue) and not
the engine itself. A scheduled task runs a chat turn in a pool; a chat turn may start
a task bot. None of these share state with the others' modules, so the five are not
composed further.

## 2. Modules, and how they correspond to the code

| module | what it is |
|---|---|
| `MissionStore` | the row of a job, the store's statements as operators on a row, policy and schedule as operators; no variables |
| `MissionEngine` | the tables, the tasks of the event loop, every request, time, crashes; EXTENDS `MissionStore` |
| `MCMission` | the kinds of job the runs create |
| `MissionProofs` | the inductive invariant of `MissionEngine` and its theorems |
| `TokenSum`, `TokenSumProofs` | SQL's `SUM` over token columns, as a cardinality, and its lemmas |
| `BudgetAccount` | abstract: an account with a limit, out of which grants are admitted, returned and charged |
| `ChatBudget` | the ledger's transactions and the scope of every turn |
| `MCBudget` | instances of `ChatBudget` |
| `ChatBudgetProofs` | the inductive invariant of `ChatBudget`, its theorems, and the refinement to `BudgetAccount` |
| `BudgetAccountProofs` | the limit of the abstract account |
| `EventDelivery` | abstract: a delivery starts at most one Mission and is promised only then |
| `WorkDelegation` | the automation rows, the requests on them and the Missions they start |
| `MCWork`, `WorkProofs` | its instances; its inductive invariant, theorems and the refinement to `EventDelivery` |
| `WorkSerialProofs` | its theorems about requests in flight: claims, and requests that nothing interrupts |
| `TaskScheduler` | the schedule file, the instance lock and the processes that open the file |
| `MCScheduler`, `SchedulerProofs` | its instances; its inductive invariant and theorems |
| `TaskBots` | one execution record and everybody who rewrites it |
| `MCBots`, `BotProofs` | its instance; its inductive invariant and theorems |

`PROJECT.json` maps every definition to the lines it stands for.

### MissionEngine

* `rows[j]` is the row of job `j`. Payloads, names and instants are dropped; what
  remains of time is whether `next_run_at` is reached (`due`) and whether
  `lock_expires_at` is unset, ahead or past (`lock`). `LockExpires` and
  `BecomesDue` are time passing.
* `tasks[j][s]` is a `_run_job` task: *claimed* until it has the semaphore and
  reloads the row, *handling* while it awaits its handler, and *awaited* while the
  loop's `gather` holds on to it. `MaxTasks` slots bound the tasks of one job.
* `Tick` is one turn of the loop: reap, claim up to `ClaimBatch` rows, spawn. It is
  enabled only while nothing is awaited: the loop is inside `gather` until then.
* `SkipCancelled`, `DenyByPolicy`, `DeferForApproval`, `RejectUnknownKind` and
  `StartHandler` are the ways out of the reload; exactly one of them applies.
* `Succeed`, `FailAndRetry`, `FailForGood` and `FinalizerRaises` are the ways out of
  a handler. A planner's handler enqueues its plan in the same step: nothing
  suspends between the two. `FinalizerRaises` is `compute_next_run` raising; gather
  then raises too, and the rest of the batch is no longer awaited.
* `Create`, `Cancel`, `RunNow`, `Requeue`, `Decide`, `StopObjective` are the requests.
* `Crash`, `CrashInTick`, `CrashInDecide`, `CrashInDefer` and `CrashInEnqueue` keep the
  rows as the statements before the crash left them, and lose the tasks.

### ChatBudget

* A ticket is a reservation or, once charged, a settlement: one record, whose `state`
  says which table holds it. A session stands for the pair (user, session) that
  keys the tables. Time is `expired` (the lease of that row) and `Midnight`.
* `Reserve`, `Settle` and `Release` are the transactions. `Reserve` sweeps the expired
  reservations, raises `session_usage` to the turn's prior total, refuses at zero
  room and otherwise grants the minimum of what was asked and what there is.
* A turn goes idle, starting, probing (its preflight's one token), ready, calling
  (an attempt) and ready again, ending, reconciling, syncing, ended. A chat turn that
  was cancelled goes straight to its end, without reconciling (`Stops`); a worker
  reconciles in its `finally`. *misfit* is the
  attempt whose grant does not cover its input and is given back.
* `Cancel` is delivered where the code can see it: before the preflight it ends the
  turn; during an attempt the shields let the ledger's call finish, and the turn
  goes on to release or settle. Cancelled in its reconciliation, a turn either waits
  for its reservation and releases it (`CancelReconcile`) or waits for its settlement
  and does not count it (`CancelSettle`). `LoseRelease` is the one release without a
  shield.
* `tokenSpend` is what is saved with the session, and what its next turn brings along as
  `prior`. `Sync` writes the ledger's total; `SaveTurn` writes back what the turn had
  read, with its messages or with what a cancelled turn salvages; `Forget` loses it.
  `Branch` copies it to a session the ledger knows nothing of, which is remembered in
  `inherited`: the first reservation there raises `session_usage` to it.
* `SettleFails` is a ledger that stays locked: the reservation stays, the turn ends
  uncharged, and its reconciliation tries once more.

### BudgetAccount

Knows neither turns nor transactions: grants are *admitted* into what is neither
spent nor held, *returned* whole, and *charged* once. An account nothing was charged to
may *inherit* a spend; an admission may then count it, once, and has to fit the limit
with it counted. `SessionAccount(s)` and
`DailyAccount(u)` in `ChatBudget` are its instances with the refinement mapping
(`spent` the usage row, `held` the hard reservations still active, `overdrawn` a
settlement above its reservation). Sweeping expired reservations is a return
that may come with an admission; midnight reopens the daily account while
reservations stay held across it.

### WorkDelegation and EventDelivery

* `autos[a]` is the row of an automation id; deleting and creating it again is the
  same id. `mission` is `mission_job_id` or `last_mission_job_id` (a row never has
  both), `active` the list `active_mission_job_ids`. States and statuses that no code
  here tells apart are one.
* `req[r]` is a request in flight. A deployment and a delivery go claim, `Submit`,
  record; a stop, an edit and a delete list the Missions (`ToStop`), cancel and
  reconcile one after the other, and then change the row or the job.
* `wiring` says whether the Mission callables suspend and whether there is a
  canceller that confirms. The shipped server has neither; the tests and those who embed
  the routes have either or both. Without
  suspension a request runs to its end before the next (`Quiet`), but for a crash.
* `MissionEnds` and `MissionRevived` are the engine's and the Mission routes' doing;
  each Mission is revived once at most. `RequestDies` is a failed save or an exception
  the route does not translate; `Crash` is that for all requests.
* `EventDelivery` has only the Missions started for a delivery and the deliveries
  answered. `DeliveredOnce` is the refinement.

### TaskScheduler

* `Process` numbers the processes in the order they load the file, so a restart is the
  next number. Names do not matter, so this order loses no behaviour.
* A cron expression is the set of times it names; `NextAfter` is croniter's answer. The
  guards 50 and 500 of the catch-up and skip loops are the constants `AdvanceGuard` and
  `SkipGuard`, because only the order of a backlog and a guard matters.
* `Poll` is `_poll_once` under its lock: collect, advance, save. `Fire` records one run,
  saves and submits it: one step, since the pool has no say until it is submitted. A
  command runs between two fires, and `Skip` passes over a task it removed.
* A command that sets a next run is two steps: `ReadClock` takes the time, and `Add`,
  `Resume`, `Update` or `RunNow` has the lock later and goes by that time. `waiting`
  counts the commands that hold such a time. `Remove` and `Pause` use theirs only for a
  stamp. `UpdateRefused` is the update that raises after it has changed the row.
* `Stop` sets the event, gives up on a slow thread, shuts the pool and releases the
  lock; a poll that outlives it is refused by the pool. These four are one step: the
  pool is shut before the lock is given back, which `OnePoller` is about.
* `_repair_next_runs` finds nothing to repair, because an active row has a next run
  (part of `TypeOK`, through `Row`).
* `overwrote` and `rewound` are ghosts: somebody saved over a list it had not read; a
  command came late, that is, it rescheduled a task by a time before a run its process
  had already taken.
* Earlier processes have left any mix of active and paused rows in the file.

### TaskBots

* One record, because records share nothing that steers. An operation is a sequence of
  *edits*, each a read of the whole record and a write of it; `held[a]` is the copy a
  thread read and has not written back. A decision that looks only at the thread's own
  state is taken with the next read.
* *requested* stands for the four states up to claimed, whose updates at the start are one
  validated edit, and *executing* for blocked too. The two progress reports of a retry
  are one.
* The heartbeat is one of five ages (`Idle` .. `Recent`). `Cut` is a stamp of this process
  that reads as older than its boot, because `_to_iso` drops the fraction and
  `booted_at` keeps it. Seconds and minutes pass between calls (`Calm`), which are
  shorter. `Quiet`, a quarter of an hour without a stamp, needs the supervisor gone: it
  looks every second and times out after a few minutes.
* `AnyOverlap = FALSE` bounds how edits overlap: while somebody holds a stale copy only
  such threads write, and after one lost write edits follow one another. The proofs
  cover both values.
* `overwrote`, `evidence`, `asked`, `stopped`, `accepted` and `taken` are ghosts.

## 3. Runs

Passing:

| run | distinct states | what it asks |
|---|---|---|
| `mission_engine` | 503,545 | two jobs over all schedules, policy outcomes and kinds, two requests, one crash (also inside a tick): `TypeOK`, `OneTaskPerJob`, `RunIsLeased`, `RecurringNeverEnds`, `CancelStopsNewRuns` |
| `mission_faults` | 727,043 | jobs gated by hand and by a plan, planners, and jobs whose finalizer raises; crashes between the writes of a decision, a deferral and a plan: `ApprovedBeforeHandled`, `ApprovalBacksRun`, `OneOpenRequest`, `AwaitingHasRequest`, `OneAwaitedTaskPerJob` |
| `mission_liveness` | 56,800 | under the fairness of section 4: `OneShotSettles`, `RecurringKeepsRunning`, `CrashedRunIsRecovered` |
| `budget_accounts` | 178,701 | two throttled turns over two sessions of a user, of which one may be a branch of the other, three tickets, crashes, overruns: the account refinements, both limits, `NoStrandedHold`, `TypeOK` |
| `budget_ledger` | 1,530,175 | throttled and unthrottled chat turns and workers over a session and its branch, with lost releases and failed settlements: `LedgerBalances`, `ChargedAsSettled` |
| `work_delegation` | 405,500 | two automations of a job in all three wirings, two requests at once, four commands, one fault: `TypeOK`, `ReceiptNamesItsMission`, `ClaimsHaveARequest`, `OneDeployment`, `StopLeavesNothingRunning`, `TrackedUntilEnded`, and the refinement `DeliveredOnce` |
| `task_scheduler` | 1,438,532 | two processes, one after or beside the other, one task that an earlier process may have left active or paused, one command that may wait for the lock, one fault: `TypeOK`, `OnePoller`, `OnceEver`, `NothingUnsaved`, `InOrder`, `PollMovesOn` |
| `task_bots` | 323,101 | one run with a retry, one instruction or stop, one restart, under fairness: `TypeOK`, `EndingsAreHonest`, `InstructionsKept`, `StoppedIsNotCompleted`, `SweepSparesTheLiving`, `EveryRunCloses` |

Violations, each a disagreement of section 6: `late_handler`,
`run_now_cancelled`, `broken_schedule`, `unleased_run`.

Deadlock is not checked: a system with nothing due and no request stops, and the
bounds stop it too.

**Bounds.** Two jobs are what batches, two tasks of one job and a plan with its
child need; the jobs do not interact beyond the batch and the semaphore, so a
third repeats one of the two roles. Two task slots suffice to see an overlap.
`MaxAttempts = 2` has a first, a last and an only retry. Two requests allow the
interesting pairs (cancel and run-now, run-now and decide, decide twice); one crash
reaches each torn write, and `mission_liveness` needs no second because the recovery
is over before it. `MaxConcurrency` is 1 where waiting for the semaphore matters
and 2 where handlers overlap. For the ledger, a session budget of 3 and a daily
budget of 4 with requests of 3 make every case occur: a full grant, a reduced one,
one that misfits, a refusal, a charge below, at and above its reservation, and a
day that is exhausted by the other session. A ticket is used once, so three
tickets bound a behaviour to three reservations: preflight, attempt and either
reconciliation or another turn's attempt. A released id can be drawn again, which
uuid4 does not do, but `Fresh` makes the two indistinguishable. `budget_ledger` has two sessions for the
sake of branches, and every kind of turn; a crash changes nothing in its two sums (the
proofs cover it) and is left to `budget_accounts`.
`Job`, `Ticket`, `Turn` and `Session` are symmetric where no liveness is checked.

For Work, two automations of one job are what a stop that runs through its list needs,
two requests one interruption, and two Missions a duplicate. Four commands are
deploy, stop, resume, deploy, or arm, deliver, deliver again, edit; five commands
(2.64 million states) pass too and take too long for every check. `StopPasses` is 2
and not the code's 3, which reaches the refused last pass with fewer commands. One
fault tears one delivery. The scheduler's clock goes to 2 with an occurrence at every
minute: with `CatchUpLimit = 2` and `SkipGuard = 1` a backlog is caught up with,
and skipped, beyond its guard; a second expression that only occurs after the clock's
end is there for edits. One command suffices because an earlier process may have left
the row in any state: it then comes early or late, before a poll or behind it. Two
processes overlap as a slow stop and its successor, or
as a server and a terminal. For the bots, two
attempts have the first and the last, and one request is either a stop or an
instruction; the inductive invariant of `BotProofs` has also been checked with edits
overlapping at will (1.55 million states).

Where the proofs of section 5 reach, the bounds only matter for how the property
was found to hold; the theorems have none of them.

## 4. Fairness

`mission_liveness` and `task_bots` use fairness.

* `RuntimeFairness`: the scheduler loop ticks (`_run_loop` wakes at least every
  tick interval), time passes (`LockExpires`, `BecomesDue`), and a ready task runs
  (asyncio's queue is first in, first out). All of it is weak fairness.
* `HandlerFairness`: handlers return or raise. This is an assumption on what they
  call and not something the engine enforces: `engine.py:153` gathers without a
  timeout. A handler that never returns stops all claiming, although the comment at
  `engine.py:151` speaks of new jobs on the next tick. The liveness properties say
  nothing without it.

`TaskBots!Fairness`: every thread's next read or write, the worker's next step, the
supervisor, the sweep (it runs in a loop, `stale_execution_sweep.py:154`) and the clock
are weakly fair. One strong fairness is an assumption: a worker's stream of events,
which may bring event after event, in the end either fails for good or ends (`GiveUp`
or `Finish`). A provider that streams for ever keeps its record stamped, and no part
of the program would end it.

No fairness is assumed of requests, restarts or crashes. The scheduler has no liveness
property: that time passes and a thread wakes is all its progress needs, and
`PollMovesOn` says what every poll achieves.

## 5. Proofs

TLAPS checks `MissionProofs`, `TokenSumProofs`, `BudgetAccountProofs`,
`ChatBudgetProofs`, `WorkProofs`, `WorkSerialProofs`, `SchedulerProofs` and `BotProofs`.
Every invariant and action property of a passing run is a theorem. The theorems hold for every value of the constants
that the modules' assumptions allow: every set of jobs, sessions, turns, tickets
(`Ticket` finite), automations, requests, tasks and instructions, every budget, every
number of crashes and requests, and every bound.

### MissionProofs

| theorem | property | assumption |
|---|---|---|
| `TypeCorrect` | `TypeOK` | |
| `GateHolds` | `ApprovedBeforeHandled` | |
| `AskedOnce` | `OneOpenRequest` | |
| `LeaseHolds` | `RunIsLeased` | |
| `ScheduleSurvives` | `RecurringNeverEnds` | |
| `CancellationSticks` | `CancelStopsNewRuns` | |
| `ApprovalBacked` | `ApprovalBacksRun` | |
| `WaitingIsAsked` | `AwaitingHasRequest` | |
| `OneAwaited` | `OneAwaitedTaskPerJob` | |
| `NoOverlap` | `OneTaskPerJob` | every schedule can be computed |

`IInv` says of each job that it is untouched (no row, task or approval) or that its
row agrees with what it was created as: a gated job keeps its approval flag until
it is approved, a running row is leased unless it is approved on the spot, and a
recurring job is in no terminal status. The row's agreement is what makes the gate
inductive: `StartHandler` looks at columns which requests, plans and torn decisions
have written, not at what the job is.

`ApprovalBacksRun` and `AwaitingHasRequest` relate two tables that the code writes by
two statements. `AnswersAgree` is what keeps them together: a gated job whose column says
approved, and which is not cancelled, has the answer that says so in the approvals table,
and, before any crash, an answer "denied" means that its job is cancelled. The second
part is needed because a decision can be repeated: `Decide` on an answered request writes
the job row only, so an approval after a denial would leave the row approved with nothing
to back it, were the job not already cancelled (which `Decide` does not undo). After a
crash between the two writes exactly that happens, and the properties say so. The proof
sorts the steps by how one job's rows in both tables move (`BothMove`): not at all
(`Steady`), by asking, or by a decision, whole or torn.

`NoOverlap` rests on a second invariant, that
every live task is awaited, which only `FinalizerRaises` breaks: hence its assumption,
and the run `broken_schedule` without it.

### ChatBudgetProofs

| theorem | property | assumption |
|---|---|---|
| `TypeCorrect` | `TypeOK` | |
| `Balanced` | `LedgerBalances` | |
| `ChargedOnce` | `ChargedAsSettled` | |
| `NothingStranded` | `NoStrandedHold` | no lost release, no failed settlement |
| `SessionAccounts`, `DailyAccounts` | `SessionAccountKept`, `DailyAccountKept` | throttling on, the budget configured |
| `SessionLimit`, `DailyLimit` | `WithinSessionBudget`, `WithinDailyBudget` | the same |
| `AccountWithinLimit` (`BudgetAccountProofs`) | `WithinLimit` of `BudgetAccount` | |

The inductive invariant is `TypeOK` with: a turn at work holds a ticket
(`HoldsTicket`), which is its own or is in no table any more (`OwnTickets`: a swept
ticket may not be charged as somebody else's); what a turn brings along is either no more
than the ledger has counted, or exactly what its session inherited as a branch
(`PriorKnown`: this, not the `max` in the code, is why a prior total raises
`session_usage` to the inherited spend and never beyond); active reservations hold
something (`RealHolds`); and the two sums. `LedgerBalances` says of the first that a
session's usage is its settlements, and at most the inherited spend more;
`ChargedAsSettled` that a turn counts all it was charged, until it is cancelled and over,
and never more. The proof does not go action by action but by the
*shapes* of a step (`ShapeOfStep`): a turn's step is quiet, takes a hold, gives it
back, pays, or abandons it. Every property is then preserved by these five shapes,
branching, forgetting and the two steps of time, instead of some thirty actions.

The refinement theorems map each shape to an account step: a reservation is an
admission, which counts an inherited spend if the turn brings it (`Grantable` takes the minimum of the rooms, and the room is computed from
the swept rows, which is what `ReserveHeld` relates to the account after the step),
a settlement a charge, a branching an inheritance, everything else a return. The limits follow from the account
alone: `LimitOfAccount` says it of one step of any account, and both `AccountWithinLimit`
and the two theorems about the ledger rest on it.

Sums are cardinalities of sets of tokens (`TokenSum`), so that `TotalChange` (one
entry changes) and `TotalMonotone` are facts about finite sets and no induction
over data is needed. `TokenSumProofs` proves them.

### WorkProofs

| theorem | property | |
|---|---|---|
| `TypeCorrect` | `TypeOK` | |
| `ReceiptsNameTheirMission` | `ReceiptNamesItsMission` | |
| `StopIsComplete` | `StopLeavesNothingRunning` | any wiring and any number of passes |
| `AtMostOnce` | `DeliveredOnce` | the refinement |
| `NoSecondMission` | `OneMissionEach` | from the steps of `EventDelivery` alone |

`IInv` has a part for each kind of record. `Rows`: a row whose state says ended names a
Mission that is over, or was and has been revived, and only an armed row lists several;
this is what lets a stop pass over rows in that state. `Receipts`: a receipt names the
Mission of its own automation and event. `Missions`: one that was not started belongs to
no event, so that a delivery's Mission is found again by its id. `Requests`: what a
request remembers of a Mission was true when it was read and has not become untrue,
since Missions end and do not begin again unless revived; this is what a refresh needs
that records a status it read before its await. `Acked`: an answered delivery has its
Mission. The refinement maps `Submit` to a start and `Acknowledge` to a promise,
everything else to a stutter. `NoSecondMission` then says what the abstract
specification is worth: no delivery has two Missions, and an acknowledged one has one.

### WorkSerialProofs

| theorem | property | its condition |
|---|---|---|
| `NoOrphanedClaim` | `ClaimsHaveARequest` | nothing failed |
| `TrackedWhileRunning` | `TrackedUntilEnded` | the Mission callables do not suspend |
| `OneMissionPerDeployment` | `OneDeployment` | both |

These rest on which request is in flight, and the frame lemmas (`RequestFrame`,
`OtherFrame`, `RowMoves`, `RowWritten`) say once which step writes which row and which
request.

* `ClaimsHeld` strengthens the property: the request behind a claim is not only there but
  has the step ahead of it that answers for the claim (`Holds`), for this very row. An
  edit in between makes the row fresh, a deletion removes it, and either takes the claim
  along.
* `Serial` is what a request may rely on between two of its own steps if nothing suspends
  it: no other request is under way (`Alone`), a row being deployed still says
  *submitting* (`DeployOK`), and an edit or a deletion has listed every running Mission
  of its row (`CoverOK`), so that forgetting the row forgets nothing that runs.
  `TriggerOK` (an event row was not deployed by hand) is needed for arming, which clears
  the row of an event automation.
* `Known` is where a Mission that was deployed by hand and still runs can be found: in
  the row that says *deployed*, or in the request that is about to record it. There is
  room for one in either, and `Serial` excludes both at once: hence one Mission.

### SchedulerProofs

| theorem | property | |
|---|---|---|
| `SchedulerTypes` | `TypeOK` | |
| `SinglePoller` | `OnePoller` | |
| `RunsOnceEver` | `OnceEver` | its condition: nobody saved over an unread list, and no command on the task came late |
| `SavedIsCurrent` | `NothingUnsaved` | its condition: no save failed and no update was refused half way since the last save |
| `RunsAreOrdered` | `InOrder` | per process; its condition: no command on the task came late there |
| `BacklogsEnd` | `PollMovesOn` | |

`Threads` ties the polling thread to the lock and the pool, and waiting commands to a
process that is up or stopping. `Behind`: whatever a process
took, or has collected and is about to take, is over, and, unless a command on its task came
late (`rewound`), lies before the next run of its own row: so a poll cannot collect it
again. `Rewinds` is the weakest such exception the proof needs: a command is late only
if it goes by a time before a run that is already taken, and every other command, however
long it waited, leaves `Behind` true. `Ordered`:
what it is about to take lies after what it took. `Shared` carries that from process
to process through the file, while nobody overwrites: an occurrence one process
started is behind every list the file or another process can still poll from, and does
not lie after the time a command of another up-to-date process is waiting with
(`ClocksPast`), so that lateness is a matter within one process.

### BotProofs

| theorem | property | |
|---|---|---|
| `BotTypes` | `TypeOK` | |
| `HonestEndings` | `EndingsAreHonest` | whatever overlaps |
| `InstructionsAreKept` | `InstructionsKept` | its condition: no lost write |
| `StopsAreKept` | `StoppedIsNotCompleted` | the same |
| `LivingAreSpared` | `SweepSparesTheLiving` | |

The key is that stale copies matter: `Records` says of every record *in use*, the one on
disk and each copy a thread holds, that it is grounded (a completed one was proved, a
cancelled one asked for), and `Edits` that every program a thread has yet to carry out
only writes what it has grounds for, on whichever copy it reads. Both are about the
past, so writes in any order keep them.

### Only model-checked

The three liveness properties of the Mission engine and `EveryRunCloses` of the bots:
fairness and ENABLED are out of the prover's reach. The four violations are
counterexamples, and TLC finds them.

## 6. Where the code and its words disagree

With a run, and a counterexample from TLC:

* `late_handler`: a handler that ends after its job was cancelled writes `succeeded`
  over `cancelled`. The store offers `preserve_cancelled` and says why
  (`store.py:420`); the engine's finalizers (`engine.py:246, 249, 258`) do not pass it.
* `run_now_cancelled`: run-now on a cancelled job shows it as queued for ever
  (`mission_tasks.py:279` leaves the cancelled column, `store.py:493` skips it).
* `broken_schedule`: one finalizer that raises ends the gather early, and the loop
  starts a second task of a job whose first still runs (`engine.py:153`).
* `unleased_run`: a run-now between claim and reload clears the lock and an approval on
  the spot (`engine.py:192`) then runs without one, so no reaper finds the row after a
  crash.

Met while modelling, with no run spent on them:

* Requeue passes `result=None, error=None` to clear both columns
  (`mission_tasks.py:299`, docstring at 293); the store skips a `None`. `RequeueRow` keeps
  them.
* A job of medium risk that was created without the approval flag runs unasked: the
  gate at `engine.py:200` is only for flagged jobs, while `policy.py:125` decides
  "approve". `GateOpen` follows the code, and `Gated` speaks of flagged jobs.
* A handler that never returns stops all claiming (section 4).
* A decision torn by a crash leaves the job awaiting with no open request: it is in no
  inbox, although the decision route would still accept a repeated answer.
  `AwaitingHasRequest` therefore excepts behaviours with a crash.
* `reconcile_unscoped_usage` reserves before it charges (`chat_budget_scope.py:125`), so
  an exhausted budget refuses the very charge that exceeded it, and the tokens stay
  uncharged (`ReconcileRefused`), although the ledger describes budgets "shared by every
  model call" (`chat_budget_ledger.py:1`).
* A branch copies the `token_spend` of its source (`chat_branch_routes.py:35-47`), its
  first turn brings it along as its prior total (`chat_v2.py:394`), and the reservation
  raises `session_usage` to it (`chat_budget_ledger.py:49-54`): the new session starts with
  another's spend counted against its budget and no settlement behind it. The day's
  usage is not touched. An announcement (`chat_v2_announcements.py:393`) and a truncation
  (`chat_v2_session_routes.py:142`) save the session without its spend, which the ledger's
  own total makes good.
* A chat turn that is cancelled ends without reconciling (`chat_v2.py:680-693`), and one
  cancelled while its reconciliation settles commits the charge and does not count it
  (`chat_budget_ledger.py:191-194` raises the cancellation again, past
  `chat_budget_scope.py:134`). The first leaves used tokens uncharged; the second leaves
  `charged_tokens` too low in a scope nobody asks again. `ChargedAsSettled` excepts
  cancelled turns that are over, from below only.
* A release without a shield (`chat_budget_ledger.py:209`) can be cancelled before a
  thread has started it (`LoseRelease`): one token waits for its six-hour lease.
* Work. Arming an event automation again forgets its live Missions and its receipts, so
  a later pause does not cancel them, although `work_mission_runtime.py` says "Cancel
  every active Mission before a job can pause or archive."; `TrackedUntilEnded` excepts
  exactly that. `archive_app` archives the jobs and cancels nothing. An exception of
  submission other than the unavailable dependency leaves the claim *submitting*, and a
  Mission whose record could not be saved is untracked (`ClaimsHaveARequest` excepts
  faults). The server hands the routes a canceller that `app_routes_init.py:1161` cannot
  back with an engine method: a stop with live Missions is then always refused.
* Scheduler. `schedule_routes.py:10` ("the same object the `thomas cron` CLI drives, so
  the page and the terminal see one list") and `cron.py:14` ("One scheduler file under
  the data dir, shared with the running server") promise one list; each process has its
  own copy and saves all of it, so a terminal's command undoes what the server did since,
  and a restart fires an overwritten slot again. `OnceEver` is conditional on this not
  happening. A save that fails in a poll loses the fires it collected. The temporary
  file has one name for all processes. `misfire_grace_s` 0 is 3600 after a reload
  (`LoadedRow`). A file that cannot be read is an empty list, and is saved over.
  An update or run-now between an occurrence and the poll drops the occurrence.
  `add_task`, `resume_task`, `run_now` and `update_task` read the clock before they wait
  for the lock (`scheduler.py:446`, `524`, `540`, `587`). If a poll takes the run of slot S
  in between, the command sets the next run back to S, saves it, and S is fired again, by
  this process or after a restart; `InOrder` and `OnceEver` except exactly that (`rewound`).
  `update_task` changes the expression, goal and channel in memory and then raises on a
  policy or a number it refuses (`scheduler.py:591-605`), before the next run is
  recomputed and before the save: the process goes on with a row no restart would load,
  until an unrelated save writes it. `NothingUnsaved` excepts it (`unsaved`).
* Bots. "A run the user ended stays ended" (`task_bot_runtime.py:543`) guards completion
  alone, and once: a cancellation after its check is overwritten, `fail_execution` turns
  cancelled into failed, and a failed run can be completed. A write over an unread
  record can drop the cancel flag or an instruction; the properties except it. "A worker
  belonging to the *current* process stamps a time after boot, so it is never touched"
  (`stale_execution_sweep.py:86`) does not hold in the second of the boot, since
  stamps are cut. `steer_execution` speaks of a worker that picks an instruction up
  between steps; it is taken at the start of an attempt. The supervisor's "Interrupt
  FIRST" cancels a wrapper, and the thread runs on. A run that dies *verified* is never
  swept (`EveryRunCloses` counts it as closed).

## 7. What the models leave out

* Mission: a graceful `stop()`, a second engine on the same database, the memory,
  agent and log tables (they steer no job), exceptions of SQLite itself, and
  attempts of different jobs with different limits. A plan's children are distinct
  rows; that a retried planner enqueues part of its plan twice is visible only as more
  children.
* Budget: the migration of the old JSON ledger, changes of
  the configured budgets while turns run, a second cancellation that reaches
  `finish_attempt` between the settlement's commit and its bookkeeping, and attempts of
  one client that overlap. Chat turns of one session are serialised within a server
  (`session_serialised`), and the model lets them interleave; a session is branched before
  its first turn, and the branch of a branch is one more `Branch`. A turn's token counter is bounded by `MaxTokens` and a
  provider's excess by `MaxOverrun`.
* Work: accounts, skills, onboarding, memory, dashboards and the workflows linked to a
  job; several apps; an update of an automation with nothing in it, which saves the row as
  it was.
* Scheduler: jitter, the history of runs, and expressions that do not parse or never
  occur. The latter matters: an expression that parses and has no next occurrence
  (the 31st of February) makes `_next_after` raise, so that adding, resuming or updating to
  it raises after the row has changed in memory, and every poll that has to move such
  a row on raises before it saves, loses the runs it had collected, and never reaches the
  rows behind it. `SchedulerAssumption`
  says that every expression has a next occurrence; `PollMovesOn` rests on it. That stop's
  release and shutdown, and a fire's record and submission, are one step is argued in
  section 2.
* Bots: the list file (the sweep passes over a row that the list calls ended, so a stale
  list hides a record from it until the list is next written), `sync_task_state` (which
  forces *executing* over an ended record), `mark_abandoned`, deleting the records of a
  session (a worker can write one back), a launch that is refused its files, and the
  canvas, live-repo and exhaustive workers.
* The components of the last table of section 1.

## 8. Plan

Modelled, checked and proved so far: the Mission engine, the budget, Work, the scheduler
and the task bots. What comes next, in order:

1. The two components' abstract specifications that are still missing, with refinement
   proofs: of the scheduler (an occurrence is taken once, in order, or passed over, while
   no process saves over another's list) and of the approval gate (asked, answered,
   started), whose safety is proved so far as invariants of the detailed modules.
2. `execution_cancellation.py` as an extension of `MissionEngine`, and a second engine on
   one database.
3. The list file of the bots and `sync_task_state`, in `TaskBots`.
4. Workspace sync as a pure operator against a reference definition; the subtask graph.

Runs are kept few: one for each question, with properties of the same model checked
together. Each module has one passing run, but for the Mission engine and the ledger,
whose questions need different instances.

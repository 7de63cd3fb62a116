------------------------------ MODULE TaskBots ------------------------------
(* One task-bot execution: the JSON record of core/task_bot_runtime.py and  *)
(* everybody who rewrites it without a lock - the worker's thread, its       *)
(* supervisor, the user's follow-ups and server/stale_execution_sweep.py.    *)
(*                                                                           *)
(* An operation is a sequence of edits.  An edit reads the whole record,     *)
(* then writes the whole record: two steps, with anybody's between them.     *)
(* Summaries, blockers, transitions, salvaged files and the list file        *)
(* (summary.json) steer nothing and are left out.                            *)
EXTENDS Naturals, Sequences, Functions

CONSTANTS Note,          \* instructions a user may send to the running task
          MaxAttempts,   \* _self_recovery_attempts(autonomy_level)
          NoRecord,
          AnyOverlap,    \* edits overlap without the bounds below
          MaxRequests, MaxRestarts   \* bounds of the model

EditName == {"start", "progress", "told", "take", "flag", "attach", "proved",
             "verify", "verified", "complete", "unproven", "hold", "fail",
             "cancel"}

ASSUME BotAssumption ==
    /\ MaxAttempts \in Nat \ {0} /\ MaxRestarts \in Nat
    /\ MaxRequests \in Nat /\ AnyOverlap \in BOOLEAN
    /\ Note \cap EditName = {}

Actor == {"worker", "supervisor", "user", "sweeper"}

VARIABLES disk,       \* the record, or NoRecord
          todo,       \* todo[a]: the edits left of a's operation
          held,       \* held[a]: the record a has read and not yet written
          worker,     \* where the worker's thread is
          supervisor, \* where _run_agent_worker_supervised is
          sweeper,    \* the startup pass, then the loop
          booting,    \* the clock still shows the second of the boot
          attempts,   \* attempts the worker has left
          requests, restarts,
          accepted,   \* the instructions steer_execution has queued
          taken,      \* the instructions the worker has folded in
          asked,      \* the user has asked for a stop
          evidence,   \* a verification passed or the checklist was met
          stopped,    \* it reads cancelled since before the worker claimed completion
          overwrote   \* somebody has written over a record it had not read

vars == <<disk, todo, held, worker, supervisor, sweeper, booting, attempts,
          requests, restarts, accepted, taken, asked, evidence, stopped, overwrote>>
-----------------------------------------------------------------------------
(* The record *)

\* "requested" to "claimed" are one state, as are "executing" and "blocked";
\* nothing in this program marks a record "abandoned".
Ended == {"completed", "failed", "cancelled"}            \* TERMINAL_STATES
Closed == Ended \cup {"verified"}    \* what the sweep and the runner pass over
State == Closed \cup {"requested", "executing", "awaiting_proof"}

\* How last_heartbeat_at reads.  A stamp is cut to the second, booted_at is
\* not: one of the second of the boot reads as older than the boot.
Idle == 0         \* fifteen minutes old
Orphaned == 1     \* before this process
Lapsed == 2       \* past the supervisor's watchdog
Cut == 3          \* of this process, yet before its booted_at
Recent == 4

Record == [state : State,
           proof : {"missing", "pending", "verified", "failed", "cancelled"},
           artifacts : BOOLEAN, cancel : BOOLEAN, pending : SUBSET Note,
           beat : Idle..Recent]

ASSUME NoRecordIsNone == NoRecord \notin Record

Stamp == IF booting THEN Cut ELSE Recent

\* update_execution with force=True, as everyone after the start calls it.
Updated(r, state, proof, heartbeat) ==
    [r EXCEPT !.state = state, !.proof = proof,
              !.beat = IF heartbeat \/ state \notin Ended THEN Stamp ELSE @]

DrainedMutant(r) == r

Drained(r) == [r EXCEPT !.pending = {}]

\* What each edit writes over the record it has read.
Written(edit, r) ==
    CASE edit \in Note     -> [r EXCEPT !.pending = @ \cup {edit}]
      [] edit = "take"     -> Drained(r)
      [] edit = "flag"     -> [r EXCEPT !.cancel = TRUE]
      [] edit = "attach"   -> [r EXCEPT !.artifacts = TRUE]
      [] edit = "verify"   -> r                       \* the proof's own status
      [] edit = "start"    -> Updated(r, "executing", r.proof, FALSE)
      [] edit = "progress" -> Updated(r, r.state, r.proof, FALSE)
      [] edit = "told"     -> Updated(r, r.state, r.proof, TRUE)
      [] edit = "proved"   -> Updated(r, r.state, "verified", TRUE)
      [] edit = "verified" -> Updated(r, "verified", "verified", TRUE)
      [] edit = "complete" -> Updated(r, "completed", "verified", FALSE)
      [] edit = "unproven" -> Updated(r, "failed", "failed", FALSE)
      [] edit = "fail"     -> Updated(r, "failed", "failed", FALSE)
      [] edit = "hold"     -> Updated(r, "awaiting_proof", "pending", TRUE)
      [] edit = "cancel"   -> Updated(r, "cancelled", "cancelled", FALSE)

Exists == disk # NoRecord

IsOpen == Exists /\ disk.state \notin Closed
-----------------------------------------------------------------------------
(* Reading and writing *)

Free(a) == todo[a] = <<>>

\* The record has changed since a read it.
Behind(a) == held[a] \notin {NoRecord, disk}

\* Without AnyOverlap, only those who are behind write while somebody is, and
\* once a write is lost edits follow one another.
MayWrite(a) == AnyOverlap \/ Behind(a) \/ \A b \in Actor : ~Behind(b)

MayRead(a) == AnyOverlap \/ ~overwrote \/ \A b \in Actor \ {a} : held[b] = NoRecord

Begin(a, edits) == todo' = [todo EXCEPT ![a] = edits]

\* The decisions that follow a look at nothing but the thread's own state read
\* the record in the same step.
Start(a, edits) ==
    /\ MayRead(a) /\ Begin(a, edits)
    /\ held' = [held EXCEPT ![a] = disk]

\* complete_execution has read the record and goes on to write it.
Claiming == "complete" \in Range(todo["worker"])

ThreadDone == worker = "off" /\ Free("worker")

\* The edit's get_execution.
Read(a) ==
    /\ ~Free(a) /\ held[a] = NoRecord /\ MayRead(a)
    /\ held' = [held EXCEPT ![a] = disk]
    /\ UNCHANGED <<disk, todo, worker, supervisor, sweeper, booting, attempts,
                   requests, restarts, accepted, taken, asked, evidence, stopped, overwrote>>

\* Nothing to take is not written back.
Silent(edit, r) == edit = "take" /\ r.pending = {}

\* The edit's _write_json.
Write(a) ==
    /\ held[a] # NoRecord /\ MayWrite(a)
    /\ ~(Head(todo[a]) = "start" /\ held[a].state # "requested")
    /\ LET edit == Head(todo[a])
           r == held[a] IN
       /\ disk' = IF Silent(edit, r) THEN disk ELSE Written(edit, r)
       /\ accepted' = IF edit \in Note THEN accepted \cup {edit} ELSE accepted
       /\ taken' = IF edit = "take" THEN taken \cup r.pending ELSE taken
       /\ overwrote' = (overwrote \/ (~Silent(edit, r) /\ Behind(a)))
       /\ stopped' = /\ disk'.state = "cancelled"
                     /\ stopped \/ (edit = "cancel" /\ ~Claiming)
    /\ Begin(a, Tail(todo[a]))
    /\ held' = [held EXCEPT ![a] = NoRecord]
    /\ UNCHANGED <<worker, supervisor, sweeper, booting, attempts, requests,
                   restarts, asked, evidence>>

\* _validate_transition raises: the task is never dispatched.
Refused ==
    /\ held["worker"] # NoRecord
    /\ Head(todo["worker"]) = "start" /\ held["worker"].state # "requested"
    /\ Begin("worker", <<>>)
    /\ held' = [held EXCEPT !["worker"] = NoRecord]
    /\ worker' = "off"
    /\ UNCHANGED <<disk, supervisor, sweeper, booting, attempts, requests,
                   restarts, accepted, taken, asked, evidence, stopped, overwrote>>
-----------------------------------------------------------------------------
(* The worker *)

Apart == <<sweeper, booting, requests, restarts, accepted, taken, asked,
           stopped, overwrote>>

Attempt == <<"progress", "take">>

\* create_execution, then the updates up to "executing".
Launch ==
    /\ ~Exists /\ worker = "off"
    /\ disk' = [state |-> "requested", proof |-> "missing", artifacts |-> FALSE,
                cancel |-> FALSE, pending |-> {}, beat |-> Stamp]
    /\ worker' = "starting"
    /\ Begin("worker", <<"start">>)
    /\ UNCHANGED <<held, supervisor, attempts, evidence>> /\ UNCHANGED Apart

\* The supervisor starts, and with it the thread and its first attempt.
Dispatch ==
    /\ worker = "starting" /\ Free("worker")
    /\ worker' = "running" /\ supervisor' = "watching"
    /\ attempts' = attempts - 1
    /\ Start("worker", Attempt)
    /\ UNCHANGED <<disk, evidence>> /\ UNCHANGED Apart

Running == worker = "running" /\ Free("worker")

\* The stream has an event: the worker leaves if the record has closed...
Event ==
    /\ Running
    /\ worker' = IF IsOpen THEN "heard" ELSE "off"
    /\ UNCHANGED <<disk, todo, held, supervisor, attempts, evidence>>
    /\ UNCHANGED Apart

\* ... stops if the user has asked, and otherwise reports progress.
Step ==
    /\ worker = "heard"
    /\ IF disk.cancel THEN worker' = "off" /\ Begin("worker", <<"cancel">>)
                      ELSE worker' = "running" /\ Begin("worker", <<"progress">>)
    /\ UNCHANGED <<disk, held, supervisor, attempts, evidence>>
    /\ UNCHANGED Apart

RetriedMutant ==
    /\ attempts' = attempts - 1
    /\ worker' = "running"
    /\ Start("worker", Attempt)

\* "Hit a snag" and another attempt; its two progress reports are one here.
Retried ==
    /\ attempts > 0 /\ attempts' = attempts - 1
    /\ worker' = "running"
    /\ Start("worker", Attempt)

Retry ==
    /\ Running /\ Retried
    /\ UNCHANGED <<disk, supervisor, evidence>> /\ UNCHANGED Apart

\* A fatal error, no attempt left, or a tool that failed and no verification.
GiveUp ==
    /\ Running
    /\ worker' = "off" /\ Start("worker", <<"fail">>)
    /\ UNCHANGED <<disk, supervisor, attempts, evidence>>
    /\ UNCHANGED Apart

\* The stream has ended without failed tools: the verification has passed, with
\* or without files to attach as proof, or it has not.
Finish ==
    /\ Running
    /\ \/ worker' = "unverified" /\ UNCHANGED <<todo, held, evidence>>
       \/ /\ worker' = "proved" /\ evidence' = TRUE
          /\ \/ UNCHANGED <<todo, held>>
             \/ Start("worker", <<"attach", "proved">>)
    /\ UNCHANGED <<disk, supervisor, attempts>> /\ UNCHANGED Apart

\* attach_proof raises at a write: _WorkerRetry.
ProofLost ==
    /\ worker = "proved" /\ held["worker"] # NoRecord
    /\ \/ Retried
       \/ attempts = 0 /\ UNCHANGED attempts
          /\ worker' = "off" /\ Start("worker", <<"fail">>)
    /\ UNCHANGED <<disk, supervisor, evidence>> /\ UNCHANGED Apart

CompletionEndedMutant(proved) ==
    IF ~(proved \/ disk.artifacts) THEN <<"unproven">>
    ELSE <<"verify", "verified", "complete">>

CompletionUnprovenMutant(proved) ==
    IF disk.state = "cancelled" THEN <<>>
    ELSE <<"verify", "verified", "complete">>

\* What complete_execution goes on to write, given the record it has read.
Completion(proved) ==
    IF disk.state = "cancelled" THEN <<>>
    ELSE IF ~(proved \/ disk.artifacts) THEN <<"unproven">>
    ELSE IF disk.state \in {"verified", "completed"} THEN <<"complete">>
    ELSE <<"verify", "verified", "complete">>

\* complete_execution: with checklists on, an unmet one holds the run and a
\* met one is evidence.
Complete ==
    /\ worker \in {"proved", "unverified"} /\ Free("worker")
    /\ \/ Begin("worker", Completion(worker = "proved")) /\ UNCHANGED evidence
       \/ disk.state # "cancelled" /\ Begin("worker", <<"hold">>) /\ UNCHANGED evidence
       \/ Begin("worker", Completion(TRUE)) /\ evidence' = TRUE
    /\ worker' = "off"
    /\ UNCHANGED <<disk, held, supervisor, attempts>> /\ UNCHANGED Apart
-----------------------------------------------------------------------------
(* The supervisor, once a second *)

Watched == <<disk, held, worker, attempts, evidence>>

Look ==
    /\ supervisor = "watching"
    /\ supervisor' = CASE ~IsOpen -> "off"
                      [] IsOpen /\ disk.beat <= Lapsed -> "late"
                      [] OTHER -> "timely"
    /\ UNCHANGED todo /\ UNCHANGED Watched /\ UNCHANGED Apart

\* The flag is read again; the age is that of the first look.
Judge ==
    /\ supervisor \in {"late", "timely"}
    /\ \/ disk.cancel /\ supervisor' = "off" /\ Begin("supervisor", <<"cancel">>)
       \/ /\ ~disk.cancel /\ supervisor = "late"
          /\ supervisor' = "off" /\ Begin("supervisor", <<"fail">>)
       \/ /\ ~disk.cancel /\ supervisor = "timely" /\ UNCHANGED todo
          /\ supervisor' = IF ThreadDone THEN "off" ELSE "watching"
    /\ UNCHANGED Watched /\ UNCHANGED Apart
-----------------------------------------------------------------------------
(* The user *)

Asked == <<disk, worker, supervisor, sweeper, booting, attempts, restarts,
           accepted, taken, evidence, stopped, overwrote>>

\* The first read of steer_execution and request_cancel also serves their
\* first write.
Request(edits) ==
    /\ requests < MaxRequests /\ requests' = requests + 1
    /\ Exists /\ disk.state \notin Ended /\ Free("user")
    /\ Start("user", edits)
    /\ UNCHANGED Asked

SteerExecution(n) == n \notin accepted /\ Request(<<n, "told">>) /\ UNCHANGED asked

RequestCancel == asked' = TRUE /\ Request(<<"flag", "told">>)
-----------------------------------------------------------------------------
(* The sweep, and the process it runs in *)

Swept == <<disk, held, worker, supervisor, booting, attempts, requests,
           restarts, accepted, taken, asked, evidence, stopped, overwrote>>

SweepableMutant == IsOpen /\ disk.state # "awaiting_proof"

Sweepable == IsOpen

StartupFindsMutant == Sweepable

StartupFinds == Sweepable /\ disk.beat \in {Cut, Orphaned, Idle}

StartupSweep ==
    /\ sweeper = "startup" /\ sweeper' = "loop"
    /\ IF StartupFinds THEN Begin("sweeper", <<"fail">>) ELSE UNCHANGED todo
    /\ UNCHANGED Swept

Sweep ==
    /\ sweeper = "loop" /\ Free("sweeper")
    /\ Sweepable /\ disk.beat = Idle
    /\ Begin("sweeper", <<"fail">>)
    /\ UNCHANGED sweeper /\ UNCHANGED Swept

Older(b) == disk' = [disk EXCEPT !.beat = b]

\* Seconds and minutes pass between calls, which take less.
Passing == <<todo, held, worker, supervisor, sweeper, attempts, requests, restarts,
             accepted, taken, asked, evidence, stopped, overwrote>>

Calm == \A a \in Actor : Free(a)

SecondPasses ==
    /\ booting /\ Calm /\ booting' = FALSE
    /\ UNCHANGED disk /\ UNCHANGED Passing

\* The watchdog's two to six minutes without a stamp.
Lapse ==
    /\ IsOpen /\ disk.beat \in {Cut, Recent} /\ Calm /\ ~booting
    /\ worker # "starting" /\ sweeper = "loop"
    /\ Older(Lapsed)
    /\ UNCHANGED booting /\ UNCHANGED Passing

\* Fifteen minutes without a stamp: the supervisor, which looks every second,
\* has gone.
Quiet ==
    /\ IsOpen /\ disk.beat \in {Lapsed, Orphaned} /\ Calm /\ ~booting
    /\ supervisor = "off"
    /\ Older(Idle)
    /\ UNCHANGED booting /\ UNCHANGED Passing

\* The process dies with its threads, and another takes its place (before
\* there is a record that changes nothing).
Restart ==
    /\ Exists /\ restarts < MaxRestarts /\ restarts' = restarts + 1
    /\ IF disk.beat # Idle THEN Older(Orphaned) ELSE UNCHANGED disk
    /\ todo' = [a \in Actor |-> <<>>] /\ held' = [a \in Actor |-> NoRecord]
    /\ worker' = "off" /\ supervisor' = "off"
    /\ sweeper' = "startup" /\ booting' = TRUE
    /\ UNCHANGED <<attempts, requests, accepted, taken, asked, evidence, stopped,
                   overwrote>>
-----------------------------------------------------------------------------
(* The specification *)

Init ==
    /\ disk = NoRecord
    /\ todo = [a \in Actor |-> <<>>] /\ held = [a \in Actor |-> NoRecord]
    /\ worker = "off" /\ supervisor = "off"
    /\ sweeper = "startup" /\ booting = TRUE
    /\ attempts = MaxAttempts /\ requests = 0 /\ restarts = 0
    /\ accepted = {} /\ taken = {}
    /\ asked = FALSE /\ evidence = FALSE /\ stopped = FALSE /\ overwrote = FALSE

Worker == \/ Launch \/ Dispatch \/ Event \/ Step \/ Retry \/ GiveUp \/ Finish
          \/ ProofLost \/ Complete \/ Refused

Supervisor == Look \/ Judge

User == RequestCancel \/ \E n \in Note : SteerExecution(n)

Clock == SecondPasses \/ Lapse \/ Quiet

Next == \/ \E a \in Actor : Read(a) \/ Write(a)
        \/ Worker \/ Supervisor \/ User
        \/ StartupSweep \/ Sweep \/ Clock \/ Restart

Spec == Init /\ [][Next]_vars

\* Threads run and time passes; a worker's stream of events ends in the end.
Fairness ==
    /\ \A a \in Actor : WF_vars(Read(a) \/ Write(a))
    /\ WF_vars(Worker) /\ SF_vars(GiveUp \/ Finish)
    /\ WF_vars(Supervisor)
    /\ WF_vars(StartupSweep \/ Sweep) /\ WF_vars(Clock)

FairSpec == Spec /\ Fairness
-----------------------------------------------------------------------------
(* Properties *)

\* The variables keep their types (the record of _new_record; a thread holds a
\* record only in the middle of an edit).
TypeOK ==
    /\ disk \in Record \cup {NoRecord}
    /\ todo \in [Actor -> Seq(EditName \cup Note)]
    /\ held \in [Actor -> Record \cup {NoRecord}]
    /\ \A a \in Actor : held[a] # NoRecord => ~Free(a)
    /\ worker \in {"off", "starting", "running", "heard", "proved", "unverified"}
    /\ supervisor \in {"off", "watching", "late", "timely"}
    /\ sweeper \in {"startup", "loop"} /\ booting \in BOOLEAN
    /\ attempts \in 0..MaxAttempts /\ restarts \in 0..MaxRestarts
    /\ requests \in 0..MaxRequests
    /\ accepted \subseteq Note /\ taken \subseteq Note
    /\ asked \in BOOLEAN /\ evidence \in BOOLEAN
    /\ stopped \in BOOLEAN /\ overwrote \in BOOLEAN

\* However the edits interleave, a record that says completed is proved by a
\* verification that passed or a checklist that was met, and one that says
\* cancelled belongs to a run the user asked to stop: no thread's stale copy
\* mixes one run's ending with another's proof (complete_execution's gate,
\* cancel_execution "Not a failure").
EndingsAreHonest ==
    Exists => /\ disk.state = "completed" => evidence /\ disk.proof = "verified"
              /\ disk.state = "cancelled" => asked /\ disk.proof # "missing"

\* An instruction steer_execution has queued waits on the record until the
\* worker takes it, and is taken once - as long as nobody writes over a record
\* it had not read.
InstructionsKept ==
    ~overwrote /\ Exists =>
        /\ accepted \subseteq disk.pending \cup taken
        /\ disk.pending \cap taken = {}

\* A run that reads cancelled since before its worker claimed completion does
\* not come to read verified or completed (complete_execution: "A run the user
\* ended stays ended"), as long as nobody writes over a record it had not read.
StoppedIsNotCompleted ==
    [][stopped /\ ~overwrote' => disk'.state \notin {"verified", "completed"}]_vars

\* The sweep closes only runs nobody drives: it sets out to fail a record
\* whose supervisor is watching only if the record was stamped in the second
\* of the boot (sweep_stale_executions, "so it is never touched").
SweepSparesTheLiving ==
    [][todo'["sweeper"] # <<>> /\ Free("sweeper") /\ supervisor # "off"
         => disk.beat = Cut]_vars

\* Every run ends and stays ended, whatever becomes of its thread, its
\* supervisor and its process, but for one that stopped between its two last
\* writes: that stays "verified" (the sweep passes over it).
EveryRunCloses == Exists ~> []~IsOpen
=============================================================================

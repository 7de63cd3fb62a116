--------------------------- MODULE TaskScheduler ---------------------------
(* The cron scheduler of core/scheduler.py and the processes that open its *)
(* file: servers, which poll while they hold the instance lock, and        *)
(* command lines and agents (auto_start=False), which only edit.  Each     *)
(* process loads the file once, works on its own copy and saves the whole  *)
(* copy after every change.                                                *)
(*                                                                         *)
(* Process numbers the processes in the order they load the file; a        *)
(* restart is the next number.  A cron expression is the set of times it   *)
(* names.  A command and a poll read the clock before they wait for the    *)
(* scheduler's lock, so what they act on may be an older time.             *)
(* run_history, last_* fields, goal and channel steer nothing and are left *)
(* out, and so are jitter and expressions that do not parse or never occur.*)
EXTENDS Naturals, FiniteSets, FiniteSetsExt

CONSTANTS Task, Lives,   \* how many processes open the file, one after another
          Cron,          \* cron expressions
          Occurs,        \* Occurs[c]: the times expression c names
          None,
          CatchUpLimit,  \* catch_up_limit
          AdvanceGuard,  \* the 50 of the catch-up path
          SkipGuard,     \* the 500 of the skip path
          DefaultGrace,  \* the 3600 seconds of misfire_grace_s
          MaxTime, MaxCommands, MaxFaults   \* bounds of the model

ASSUME SchedulerAssumption ==
    /\ Lives \in Nat /\ None \notin Nat
    /\ Occurs \in [Cron -> SUBSET Nat]
    /\ MaxTime \in Nat /\ MaxCommands \in Nat /\ MaxFaults \in Nat
    /\ \A c \in Cron : \A t \in 0..MaxTime : \E s \in Occurs[c] : s > t
    /\ CatchUpLimit \in Nat \ {0} /\ AdvanceGuard \in Nat
    /\ SkipGuard \in Nat \ {0} /\ DefaultGrace \in Nat \ {0}

Process == 1..Lives

VARIABLES now,
          file,       \* the task list last saved
          lock,       \* the process that holds the instance lock, or None
          proc,       \* each process: its scheduler object and threads
          starts,     \* starts[p][<<t, s>>]: runs p's pool took for slot s of t
          overwrote,  \* somebody has saved over a list it had not read
          rewound,    \* where a command came late: see Rewinds
          commands, faults

vars == <<now, file, lock, proc, starts, overwrote, rewound, commands, faults>>
-----------------------------------------------------------------------------
(* The task list *)

Slot == UNION {Occurs[c] : c \in Cron}

\* grace is None under the "catch_up" policy, misfire_grace_s under "skip".
\* An active row has a next run.
Row == {row \in [cron : Cron, paused : BOOLEAN, next : Slot \cup {None},
                 grace : {None, 0, DefaultGrace}] :
          row.paused \/ row.next # None}

ASSUME NoneIsNoRow == None \notin Row

List == [Task -> Row \cup {None}]

NextAfter(c, t) == Min({s \in Occurs[c] : s > t})

\* What a command that read the clock at `clock` makes of an added task.
FreshMutant(c, row, clock) ==
    [cron |-> c, paused |-> FALSE,
     next |-> IF row = None THEN NextAfter(c, clock) ELSE row.next,
     grace |-> IF row = None THEN None ELSE row.grace]

Fresh(c, row, clock) ==
    [cron |-> c, paused |-> FALSE, next |-> NextAfter(c, clock),
     grace |-> IF row = None THEN None ELSE row.grace]

LoadedRowMutant(row) ==
    IF row = None \/ row.paused THEN row
    ELSE [row EXCEPT !.next = Min(Occurs[row.cron])]

\* What a restart makes of a saved row: a grace of zero is read as missing.
\* Active rows have a next run (see Row), so _repair_next_runs finds nothing.
LoadedRow(row) ==
    IF row = None THEN None
    ELSE [row EXCEPT !.grace = IF @ = 0 THEN DefaultGrace ELSE @]

Loaded(list) == [t \in Task |-> LoadedRow(list[t])]

\* What is due of an active row: the next run, also when a refused update has
\* since changed the expression, and the occurrences after it.
Due(row, clock) ==
    IF row = None \/ row.paused \/ row.next = None \/ clock < row.next THEN {}
    ELSE {row.next} \cup {s \in Occurs[row.cron] : row.next < s /\ s <= clock}

\* The place of a time among others.
Rank(S, s) == Cardinality({x \in S : x < s})

Stale(row, clock) == row.grace # None /\ clock - row.next > row.grace

CollectedTwiceMutant(row, clock) ==
    IF row = None \/ row.paused \/ row.next = None THEN {}
    ELSE {s \in Occurs[row.cron] : row.next <= s + 1 /\ s <= clock}

\* Up to CatchUpLimit occurrences fire.  Inside the loop the age test never
\* skips one: the later occurrences are younger than the first.
Collected(row, clock) ==
    LET due == Due(row, clock) IN
    IF due = {} \/ Stale(row, clock) THEN {}
    ELSE {s \in due : Rank(due, s) < CatchUpLimit}

\* How many due occurrences one poll moves past.
Reach(row, clock) ==
    IF Stale(row, clock) THEN SkipGuard ELSE CatchUpLimit + AdvanceGuard

Left(row, clock) ==
    {s \in Due(row, clock) : Rank(Due(row, clock), s) >= Reach(row, clock)}

AdvancedStaleMutant(row, clock) ==
    IF Due(row, clock) = {} \/ Stale(row, clock) THEN row
    ELSE [row EXCEPT !.next = NextAfter(row.cron, clock)]

Advanced(row, clock) ==
    IF Due(row, clock) = {} THEN row
    ELSE [row EXCEPT !.next = IF Left(row, clock) # {} THEN Min(Left(row, clock))
                              ELSE NextAfter(row.cron, clock)]
-----------------------------------------------------------------------------
(* The processes.                                                          *)
(*   state   new, loaded, up, stopped (its pool takes no runs), gone       *)
(*   thread  none, waiting, polling (past the stop test), firing           *)

Process_ == [state   : {"new", "loaded", "up", "stopped", "gone"},
             thread  : {"none", "waiting", "polling", "firing"},
             woke    : 0..MaxTime,  \* when a poll passed the stop test
             waiting : [0..MaxTime -> Nat],  \* commands that read the clock then
             tasks   : List,
             fresh   : BOOLEAN,   \* its copy stems from the list last saved
             unsaved : BOOLEAN,   \* a save failed, or a change was given up half way
             fires   : SUBSET (Task \X Slot),
             running : [Task -> Nat]]

Empty == [t \in Task |-> None]

Blank(state) == [state |-> state, thread |-> "none", woke |-> 0,
                 waiting |-> [clock \in 0..MaxTime |-> 0], tasks |-> Empty,
                 fresh |-> FALSE, unsaved |-> FALSE, fires |-> {},
                 running |-> [t \in Task |-> 0]]

Alive(p)    == proc[p].state \in {"loaded", "up", "stopped"}
PoolOpen(p) == proc[p].state = "up"

SetProc(p, r) == proc' = [proc EXCEPT ![p] = r]

\* One more run of t in the pool's hands, and one fewer.
Begun(r, t) == [r EXCEPT !.running[t] = @ + 1]
Ended(r, t) == [r EXCEPT !.running[t] = @ - 1]

\* os.replace of the whole list.  r is the process after the save.
Save(p, r) ==
    /\ file' = r.tasks
    /\ overwrote' = (overwrote \/ ~proc[p].fresh)
    /\ proc' = [q \in Process |->
                  IF q = p THEN [r EXCEPT !.fresh = TRUE, !.unsaved = FALSE]
                  ELSE [proc[q] EXCEPT !.fresh = FALSE]]
    /\ UNCHANGED faults

\* The save raises: the copy in memory has changed and the file has not.
SaveFails(p, r) ==
    /\ faults < MaxFaults
    /\ faults' = faults + 1
    /\ SetProc(p, [r EXCEPT !.unsaved = TRUE])
    /\ UNCHANGED <<file, overwrote>>

\* A row that earlier processes left.
SavedBefore(c, paused) ==
    [Fresh(c, None, 0) EXCEPT !.paused = paused, !.next = IF paused THEN None ELSE @]

Init ==
    /\ now = 0
    /\ file \in [Task -> {None} \cup {SavedBefore(c, paused) : c \in Cron, paused \in BOOLEAN}]
    /\ lock = None
    /\ proc = [p \in Process |-> Blank("new")]
    /\ starts = [p \in Process |-> [x \in Task \X Slot |-> 0]]
    /\ overwrote = FALSE /\ rewound = {}
    /\ commands = 0 /\ faults = 0

Tick ==
    /\ now < MaxTime
    /\ now' = now + 1
    /\ UNCHANGED <<file, lock, proc, starts, overwrote, rewound, commands, faults>>
-----------------------------------------------------------------------------
(* A process starts and stops *)

Opens(p) ==
    /\ proc[p].state = "new"
    /\ \A q \in Process : q < p => proc[q].state # "new"

\* __init__ loads the list before start() asks for the lock.
Load(p) ==
    /\ Opens(p)
    /\ SetProc(p, [Blank("loaded") EXCEPT !.tasks = Loaded(file),
                                          !.fresh = TRUE])
    /\ UNCHANGED <<now, file, lock, starts, overwrote, rewound, commands, faults>>

\* A list that cannot be read is taken for an empty one.
LoadFails(p) ==
    /\ Opens(p)
    /\ faults < MaxFaults
    /\ faults' = faults + 1
    /\ SetProc(p, Blank("loaded"))
    /\ UNCHANGED <<now, file, lock, starts, overwrote, rewound, commands>>

\* A server that finds the lock taken, or a process that does not ask for
\* it, goes on without a polling thread.
Start(p) ==
    /\ proc[p].state = "loaded"
    /\ SetProc(p, [proc[p] EXCEPT !.state = "up"])
    /\ UNCHANGED <<now, file, lock, starts, overwrote, rewound, commands, faults>>

LockFreeMutant == TRUE

LockFree == lock = None

\* A process that is up without polling may start to: set_execute_fn.
StartPolling(p) ==
    /\ proc[p].state \in {"loaded", "up"} /\ proc[p].thread = "none"
    /\ LockFree
    /\ lock' = p
    /\ SetProc(p, [proc[p] EXCEPT !.state = "up", !.thread = "waiting"])
    /\ UNCHANGED <<now, file, starts, overwrote, rewound, commands, faults>>

\* stop(): set the event, join the thread for two seconds at most, shut the
\* pool down and give the lock back.  A thread that is slow outlives it.
Stop(p) ==
    /\ proc[p].state = "up"
    /\ SetProc(p, [proc[p] EXCEPT !.state = "stopped"])
    /\ lock' = IF lock = p THEN None ELSE lock
    /\ UNCHANGED <<now, file, starts, overwrote, rewound, commands, faults>>

\* The interpreter waits for the pool and not for the polling thread.
Exit(p) ==
    /\ proc[p].state = "stopped" \/ (proc[p].state = "up" /\ lock # p)
    /\ \A t \in Task : proc[p].running[t] = 0
    /\ SetProc(p, Blank("gone"))
    /\ UNCHANGED <<now, file, lock, starts, overwrote, rewound, commands, faults>>

Crash(p) ==
    /\ Alive(p)
    /\ faults < MaxFaults
    /\ faults' = faults + 1
    /\ SetProc(p, Blank("gone"))
    /\ lock' = IF lock = p THEN None ELSE lock
    /\ UNCHANGED <<now, file, starts, overwrote, rewound, commands>>
-----------------------------------------------------------------------------
(* The polling thread *)

Wake(p) ==
    /\ proc[p].thread = "waiting"
    /\ SetProc(p, [proc[p] EXCEPT
                     !.thread = IF proc[p].state = "up" THEN "polling"
                                ELSE "none",
                     !.woke = IF proc[p].state = "up" THEN now ELSE 0])
    /\ UNCHANGED <<now, file, lock, starts, overwrote, rewound, commands, faults>>

Polled(p, clock) == [t \in Task |-> Advanced(proc[p].tasks[t], clock)]

Fires(p, clock) == {x \in Task \X Slot : x[2] \in Collected(proc[p].tasks[x[1]], clock)}

ChangedOnlyByFiresMutant(p, clock) == Fires(p, clock) # {}

\* Whether a poll has something to save.
Changed(p, clock) == Fires(p, clock) # {} \/ Polled(p, clock) # proc[p].tasks

\* The thread has nothing left to fire and waits for the next interval.
Resting(r) == [r EXCEPT !.thread = "waiting", !.woke = 0, !.fires = {}]

Firing(r, fires) ==
    [r EXCEPT !.thread = IF fires = {} THEN "waiting" ELSE "firing",
              !.woke = 0, !.fires = fires]

\* _poll_once under its lock: collect what was due when it read the clock,
\* move every schedule on, save.  A save that raises ends the poll, with the
\* fires uncollected.
Poll(p) ==
    /\ proc[p].thread = "polling"
    /\ \E clock \in proc[p].woke..now :
        LET r == [proc[p] EXCEPT !.tasks = Polled(p, clock)] IN
        \/ /\ Changed(p, clock)
           /\ Save(p, Firing(r, Fires(p, clock))) \/ SaveFails(p, Resting(r))
        \/ /\ ~Changed(p, clock)
           /\ SetProc(p, Firing(r, Fires(p, clock)))
           /\ UNCHANGED <<file, overwrote, faults>>
    /\ UNCHANGED <<now, lock, starts, rewound, commands>>

\* The fires of one task go in the order of their times.
Foremost(p, x) ==
    /\ x \in proc[p].fires
    /\ \A y \in proc[p].fires : y[1] = x[1] => x[2] <= y[2]

\* A task removed since the poll is passed over.
Gone(p, x) == proc[p].tasks[x[1]] = None

Skip(p) ==
    /\ proc[p].thread = "firing"
    /\ \E x \in proc[p].fires :
        /\ Foremost(p, x) /\ Gone(p, x)
        /\ SetProc(p, Firing(proc[p], proc[p].fires \ {x}))
    /\ UNCHANGED <<now, file, lock, starts, overwrote, rewound, commands, faults>>

\* The fire is saved with its row before the pool takes it.  A pool that was
\* shut down refuses it; that, or a save that raises, drops the rest.
Fire(p) ==
    /\ proc[p].thread = "firing"
    /\ \E x \in proc[p].fires :
        LET r == Firing(proc[p], proc[p].fires \ {x}) IN
        /\ Foremost(p, x) /\ ~Gone(p, x)
        /\ \/ /\ PoolOpen(p)
              /\ Save(p, Begun(r, x[1]))
              /\ starts' = [starts EXCEPT ![p][x] = @ + 1]
           \/ /\ ~PoolOpen(p)
              /\ Save(p, Resting(proc[p]))
              /\ UNCHANGED starts
           \/ /\ SaveFails(p, Resting(proc[p]))
              /\ UNCHANGED starts
    /\ UNCHANGED <<now, lock, rewound, commands>>

\* A run ends: its callback writes the history of a task that still exists,
\* also after stop(), for as long as the process waits for its pool.
Finish(p, t) ==
    LET r == Ended(proc[p], t) IN
    /\ proc[p].running[t] > 0
    /\ \/ proc[p].tasks[t] # None /\ (Save(p, r) \/ SaveFails(p, r))
       \/ /\ proc[p].tasks[t] = None
          /\ SetProc(p, r)
          /\ UNCHANGED <<file, overwrote, faults>>
    /\ UNCHANGED <<now, lock, starts, rewound, commands>>
-----------------------------------------------------------------------------
(* The commands, from a page, a terminal or a tool *)

WithRow(r, t, row) == [r EXCEPT !.tasks[t] = row]

\* A command is called.
Call(p) ==
    /\ proc[p].state = "up"
    /\ commands < MaxCommands
    /\ commands' = commands + 1
    /\ UNCHANGED <<now, lock, starts>>

\* One that sets a next run reads the clock, and then waits for the lock.
ReadClock(p) ==
    /\ Call(p)
    /\ SetProc(p, [proc[p] EXCEPT !.waiting[now] = @ + 1])
    /\ UNCHANGED <<file, overwrote, rewound, faults>>

\* It has its turn, also when the scheduler was stopped meanwhile.
Waiting(p)       == {clock \in 0..now : proc[p].waiting[clock] > 0}
Served(r, clock) == [r EXCEPT !.waiting[clock] = @ - 1]

\* The process has already taken a run of t that lies after the clock a
\* command on t goes by: the next run it sets may be that run again.
Rewinds(p, t, clock) ==
    \E s \in Slot : clock < s /\ (starts[p][<<t, s>>] > 0 \/ <<t, s>> \in proc[p].fires)

\* What such a command leaves of the process: t's row is `row`.
Rescheduled(p, t, row, clock) == Served(WithRow(proc[p], t, row), clock)

Reschedule(p, t, row, clock) ==
    LET r == Rescheduled(p, t, row, clock) IN
    /\ Save(p, r) \/ SaveFails(p, r)
    /\ rewound' = IF Rewinds(p, t, clock) THEN rewound \cup {<<p, t>>} ELSE rewound
    /\ UNCHANGED <<now, lock, starts, commands>>

Add(p, t) ==
    \E c \in Cron, clock \in Waiting(p) :
        Reschedule(p, t, Fresh(c, proc[p].tasks[t], clock), clock)

Resume(p, t) ==
    LET row == proc[p].tasks[t] IN
    /\ row # None
    /\ \E clock \in Waiting(p) :
        Reschedule(p, t, Fresh(row.cron, row, clock), clock)

Update(p, t) ==
    LET row == proc[p].tasks[t] IN
    /\ row # None
    /\ \E c \in Cron, g \in {None, 0}, clock \in Waiting(p) :
        Reschedule(p, t,
            [row EXCEPT !.cron = c, !.grace = g,
                        !.next = IF row.paused THEN @ ELSE NextAfter(c, clock)],
            clock)

\* run_now moves the schedule on, of a paused task too, saves, then submits;
\* a pool that was shut down refuses the run.
RunNow(p, t) ==
    LET row == proc[p].tasks[t] IN
    /\ row # None
    /\ \E clock \in Waiting(p) :
        LET r == Rescheduled(p, t, [row EXCEPT !.next = NextAfter(row.cron, clock)], clock) IN
        /\ Save(p, IF PoolOpen(p) THEN Begun(r, t) ELSE r) \/ SaveFails(p, r)
        /\ rewound' = IF Rewinds(p, t, clock) THEN rewound \cup {<<p, t>>} ELSE rewound
        /\ UNCHANGED <<now, lock, starts, commands>>

\* A policy, grace or jitter that is refused raises when the expression, and
\* what precedes it, are already changed in memory; nothing is saved.
UpdateRefused(p, t) ==
    LET row == proc[p].tasks[t] IN
    /\ row # None
    /\ Call(p)
    /\ \E c \in Cron, g \in {row.grace, None, 0} :
        SetProc(p, [WithRow(proc[p], t, [row EXCEPT !.cron = c, !.grace = g])
                       EXCEPT !.unsaved = TRUE])
    /\ UNCHANGED <<file, overwrote, rewound, faults>>

\* Commands that set no next run: their clock only stamps updated_at.
Edit(p, t, row) ==
    LET r == WithRow(proc[p], t, row) IN
    /\ Call(p)
    /\ Save(p, r) \/ SaveFails(p, r)
    /\ UNCHANGED rewound

Remove(p, t) == proc[p].tasks[t] # None /\ Edit(p, t, None)

Pause(p, t) ==
    /\ proc[p].tasks[t] # None
    /\ Edit(p, t, [proc[p].tasks[t] EXCEPT !.paused = TRUE, !.next = None])
-----------------------------------------------------------------------------
Lifecycle(p) ==
    \/ Load(p) \/ LoadFails(p)
    \/ Start(p) \/ StartPolling(p)
    \/ Stop(p) \/ Exit(p) \/ Crash(p)

Polling(p) == Wake(p) \/ Poll(p) \/ Skip(p) \/ Fire(p)

Commands(p, t) ==
    \/ Resume(p, t) \/ Add(p, t) \/ Remove(p, t)
    \/ Pause(p, t) \/ Update(p, t) \/ UpdateRefused(p, t) \/ RunNow(p, t)

Next ==
    \/ Tick
    \/ \E p \in Process :
        \/ Lifecycle(p)
        \/ Polling(p)
        \/ ReadClock(p)
        \/ \E t \in Task : Finish(p, t) \/ Commands(p, t)

Spec == Init /\ [][Next]_vars
-----------------------------------------------------------------------------
(* Properties *)

TypeOK ==
    /\ now \in 0..MaxTime
    /\ file \in List
    /\ lock \in Process \cup {None}
    /\ proc \in [Process -> Process_]
    /\ starts \in [Process -> [Task \X Slot -> Nat]]
    /\ overwrote \in BOOLEAN /\ rewound \subseteq Process \X Task
    /\ commands \in 0..MaxCommands /\ faults \in 0..MaxFaults

\* Two processes never both have a polling thread whose pool still takes
\* runs, whatever order of stop(), slow polls, crashes and restarts: stop()
\* shuts the pool before it gives the lock back.
OnePoller ==
    \A p, q \in Process :
        /\ proc[p].thread # "none" /\ PoolOpen(p)
        /\ proc[q].thread # "none" /\ PoolOpen(q)
        => p = q

\* Restarts, crashes, failed saves and slow stops never run an occurrence a
\* second time in another process, unless somebody saved over a list it had
\* not read, or a command came late and set the schedule of this task back.
OnceEver ==
    ~overwrote =>
        \A p, q \in Process : \A x \in Task \X Slot :
            starts[p][x] > 0 /\ starts[q][x] > 0
                => p = q \/ \E r \in Process : <<r, x[1]>> \in rewound

\* A process that saved each of its changes, none of them failed or refused
\* half way, holds nothing a restart would not load: a poll that only skips
\* stale occurrences saves the schedule it moved.
NothingUnsaved ==
    \A p \in Process :
        proc[p].fresh /\ ~proc[p].unsaved =>
            Loaded(proc[p].tasks) = Loaded(file)

\* One process starts the runs of a task in the order of their times, and so
\* each occurrence at most once, however the task is edited, removed, added
\* again, paused or caught up meanwhile, and whoever writes the file, unless
\* a command came late: it read the clock, then a poll took a run of this
\* task that lies after that time, and then the command had its turn.
InOrder ==
    [][\A p \in Process : \A x \in Task \X Slot :
          starts'[p][x] # starts[p][x] =>
              \/ \A s \in Slot : starts[p][<<x[1], s>>] > 0 => s < x[2]
              \/ <<p, x[1]>> \in rewound]_vars

\* Every poll of a due schedule moves it forward, also one that skips stale
\* occurrences, runs out of its guard or fails to save: a backlog ends.
PollMovesOn ==
    [][\A p \in Process, t \in Task :
          /\ proc[p].thread = "polling"
          /\ proc'[p].thread \in {"waiting", "firing"}
          /\ Due(proc[p].tasks[t], proc[p].woke) # {}
          => proc'[p].tasks[t].next > proc[p].tasks[t].next]_vars
=============================================================================

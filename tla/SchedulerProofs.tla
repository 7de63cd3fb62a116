-------------------------- MODULE SchedulerProofs --------------------------
(* Theorems about TaskScheduler, for every set of tasks, every number of   *)
(* processes, every cron expression and every bound.                       *)
EXTENDS TaskScheduler, TLAPS, FiniteSetTheorems, WellFoundedInduction

USE SchedulerAssumption
-----------------------------------------------------------------------------
(* Times and rows *)

LEMMA LeastExists ==
    ASSUME NEW S, S \subseteq Nat, S # {}
    PROVE  \E x \in S : \A y \in S : x <= y
<1> DEFINE R == {ss \in Nat \X Nat : ss[1] < ss[2]}
<1>1. IsWellFoundedOn(R, Nat)
    BY NatLessThanWellFounded DEF OpToRel
<1>2. PICK x \in S : \A y \in S : ~(<<y, x>> \in R)
  <2> HIDE DEF R
  <2> QED BY <1>1, WFMin
<1>3. ASSUME NEW y \in S PROVE x <= y
  <2>1. x \in Nat /\ y \in Nat /\ ~(<<y, x>> \in R)
    BY <1>2
  <2>2. <<y, x>> \in Nat \X Nat /\ <<y, x>>[1] = y /\ <<y, x>>[2] = x
    BY <2>1
  <2>3. ~(y < x)
    BY <2>1, <2>2
  <2>4. QED BY <2>1, <2>3
<1>4. QED BY <1>3

LEMMA MinIsLeast ==
    ASSUME NEW S, S \subseteq Nat, S # {}
    PROVE  Min(S) \in S /\ \A y \in S : Min(S) <= y
  BY LeastExists DEF Min

LEMMA SlotsAreTimes == Slot \subseteq Nat
  BY DEF Slot

LEMMA ZeroIsATime == 0 \in 0..MaxTime
  OBVIOUS

\* The next run lies after the time it is asked for.
LEMMA NextAfterIsLater ==
    ASSUME NEW c \in Cron, NEW t \in 0..MaxTime
    PROVE  /\ NextAfter(c, t) \in Slot
           /\ NextAfter(c, t) \in Nat
           /\ NextAfter(c, t) > t
<1> DEFINE S == {s \in Occurs[c] : s > t}
<1>1. S \subseteq Nat /\ S # {}
    OBVIOUS
<1>2. NextAfter(c, t) \in S
    BY <1>1, MinIsLeast DEF NextAfter
<1>3. QED BY <1>1, <1>2 DEF Slot

\* A row that keeps occurrence s from being collected.
Past(row, s) == row = None \/ row.paused \/ row.next > s

LEMMA RowFields ==
    ASSUME NEW row \in Row
    PROVE  /\ row.cron \in Cron
           /\ row.paused \in BOOLEAN
           /\ row.next \in Slot \cup {None}
           /\ row.grace \in {None, 0, DefaultGrace}
           /\ ~row.paused => row.next \in Slot /\ row.next \in Nat
           /\ row # None
  <1>1. row \in [cron : Cron, paused : BOOLEAN, next : Slot \cup {None},
                 grace : {None, 0, DefaultGrace}]
      BY DEF Row
  <1>2. row # None
      BY NoneIsNoRow
  <1>3. QED BY <1>1, <1>2, SlotsAreTimes DEF Row

LEMMA NewRowIsRow ==
    ASSUME NEW c \in Cron, NEW row \in Row \cup {None}, NEW clock \in 0..MaxTime
    PROVE  /\ Fresh(c, row, clock) \in Row
           /\ \A s \in Nat : s <= clock => Past(Fresh(c, row, clock), s)
<1>1. NextAfter(c, clock) \in Slot /\ NextAfter(c, clock) \in Nat
      /\ NextAfter(c, clock) > clock /\ NextAfter(c, clock) # None
    BY NextAfterIsLater
<1>2. (IF row = None THEN None ELSE row.grace) \in {None, 0, DefaultGrace}
    BY RowFields
<1>3. QED BY <1>1, <1>2 DEF Fresh, Row, Past

\* A row edited in place: what it is past afterwards.
LEMMA MovedRowIsRow ==
    ASSUME NEW row \in Row, NEW c \in Cron,
           NEW g \in {None, 0, DefaultGrace}, NEW n \in Slot \cup {None},
           ~row.paused => n \in Slot
    PROVE  /\ [row EXCEPT !.cron = c, !.grace = g, !.next = n] \in Row
           /\ \A s \in Nat : row.paused \/ n > s =>
                 Past([row EXCEPT !.cron = c, !.grace = g, !.next = n], s)
<1>1. row \in [cron : Cron, paused : BOOLEAN, next : Slot \cup {None},
               grace : {None, 0, DefaultGrace}]
    BY DEF Row
<1> DEFINE new == [row EXCEPT !.cron = c, !.grace = g, !.next = n]
<1>2. /\ new \in [cron : Cron, paused : BOOLEAN, next : Slot \cup {None},
                  grace : {None, 0, DefaultGrace}]
      /\ new.paused = row.paused /\ new.next = n
    BY <1>1
<1>3. ~row.paused => n # None /\ n \in Nat
    BY SlotsAreTimes
<1>4. new \in Row
    BY <1>2, <1>3 DEF Row
<1>5. \A s \in Nat : row.paused \/ n > s => Past(new, s)
    BY <1>2, <1>3 DEF Past
<1>6. QED BY <1>4, <1>5

LEMMA LoadedRowKeeps ==
    ASSUME NEW row \in Row \cup {None}
    PROVE  /\ LoadedRow(row) \in Row \cup {None}
           /\ LoadedRow(LoadedRow(row)) = LoadedRow(row)
           /\ \A s \in Nat : Past(row, s) => Past(LoadedRow(row), s)
<1>1. CASE row = None
    BY <1>1 DEF LoadedRow
<1>2. CASE row \in Row
  <2>1. row \in [cron : Cron, paused : BOOLEAN, next : Slot \cup {None},
                 grace : {None, 0, DefaultGrace}] /\ row # None
      BY <1>2, NoneIsNoRow DEF Row
  <2>2. LoadedRow(row) = [row EXCEPT !.grace = IF row.grace = 0
                                     THEN DefaultGrace ELSE row.grace]
      BY <2>1 DEF LoadedRow
  <2>3. /\ LoadedRow(row) \in [cron : Cron, paused : BOOLEAN,
               next : Slot \cup {None}, grace : {None, 0, DefaultGrace}]
        /\ LoadedRow(row).paused = row.paused
        /\ LoadedRow(row).next = row.next
        /\ LoadedRow(row).grace # 0
      BY <2>1, <2>2
  <2>4. LoadedRow(row) \in Row
      BY <1>2, <2>3 DEF Row
  <2>5. LoadedRow(row) # None
      BY <2>4, NoneIsNoRow
  <2>6. LoadedRow(LoadedRow(row)) = LoadedRow(row)
    <3> DEFINE r == LoadedRow(row)
    <3>1. LoadedRow(r) = [r EXCEPT !.grace = IF r.grace = 0 THEN DefaultGrace
                                              ELSE r.grace]
        BY <2>5 DEF LoadedRow
    <3>2. [r EXCEPT !.grace = r.grace] = r
        BY <2>3
    <3>3. QED BY <2>3, <3>1, <3>2
  <2>7. \A s \in Nat : Past(row, s) => Past(LoadedRow(row), s)
      BY <2>1, <2>3 DEF Past
  <2>8. QED BY <2>4, <2>6, <2>7
<1>3. QED BY <1>1, <1>2

LEMMA LoadedKeeps ==
    ASSUME NEW list \in List
    PROVE  /\ Loaded(list) \in List
           /\ Loaded(Loaded(list)) = Loaded(list)
           /\ \A t \in Task, s \in Nat :
                 Past(list[t], s) => Past(Loaded(list)[t], s)
  BY LoadedRowKeeps DEF Loaded, List
-----------------------------------------------------------------------------
(* One poll of one row *)

LEMMA DueIsFinite ==
    ASSUME NEW row \in Row \cup {None}, NEW clock \in 0..MaxTime
    PROVE  /\ IsFiniteSet(Due(row, clock))
           /\ Due(row, clock) \subseteq Nat /\ Due(row, clock) \subseteq Slot
           /\ \A s \in Due(row, clock) : s <= clock /\ row.next <= s
           /\ Due(row, clock) # {} => row \in Row /\ ~row.paused
<1>1. CASE Due(row, clock) = {}
    BY <1>1, FS_EmptySet
<1>2. CASE Due(row, clock) # {}
  <2>1. /\ row \in Row /\ ~row.paused
        /\ ~(clock < row.next)
        /\ Due(row, clock) = {row.next} \cup
                {s \in Occurs[row.cron] : row.next < s /\ s <= clock}
      BY <1>2 DEF Due
  <2>2. row.cron \in Cron /\ row.next \in Slot /\ row.next \in Nat
      BY <2>1, RowFields
  <2>3. Due(row, clock) \subseteq 0..clock /\ Due(row, clock) \subseteq Slot
    <3>1. Occurs[row.cron] \subseteq Slot /\ Occurs[row.cron] \subseteq Nat
        BY <2>2 DEF Slot
    <3>2. row.next \in 0..clock
        BY <2>1, <2>2
    <3>3. QED BY <2>1, <2>2, <3>1, <3>2
  <2>7. \A s \in Due(row, clock) : row.next <= s
      BY <2>1, <2>2, <2>3
  <2>4. IsFiniteSet(0..clock)
      BY FS_Interval
  <2>5. IsFiniteSet(Due(row, clock))
      BY <2>3, <2>4, FS_Subset
  <2>6. QED BY <2>1, <2>3, <2>5, <2>7
<1>3. QED BY <1>1, <1>2

LEMMA RankGrows ==
    ASSUME NEW S, IsFiniteSet(S), S \subseteq Nat, NEW s \in S, NEW u \in S,
           Rank(S, s) < Rank(S, u)
    PROVE  s < u
<1>1. SUFFICES ASSUME u <= s PROVE FALSE
    BY SMT
<1>2. {x \in S : x < u} \subseteq {x \in S : x < s}
  <2>1. \A x \in S : x < u => x < s
      BY <1>1
  <2>2. QED BY <2>1
<1>3. IsFiniteSet({x \in S : x < s}) /\ IsFiniteSet({x \in S : x < u})
    BY FS_Subset
<1>4. /\ Rank(S, u) <= Rank(S, s)
      /\ Rank(S, u) \in Nat /\ Rank(S, s) \in Nat
    BY <1>2, <1>3, FS_Subset, FS_CardinalityType DEF Rank
<1>5. QED BY <1>4

\* What is collected is due, and a poll leaves the next run of the row later
\* than it was and later than everything it collected.
LEMMA PollOfRow ==
    ASSUME NEW row \in Row \cup {None}, NEW clock \in 0..MaxTime
    PROVE  /\ Advanced(row, clock) \in Row \cup {None}
           /\ Collected(row, clock) \subseteq Due(row, clock)
           /\ \A s \in Nat : Past(row, s) => Past(Advanced(row, clock), s)
           /\ \A s \in Collected(row, clock) : Past(Advanced(row, clock), s)
           /\ Due(row, clock) # {} => Advanced(row, clock).next > row.next
<1>1. CASE Due(row, clock) = {}
    BY <1>1 DEF Advanced, Collected
<1>2. CASE Due(row, clock) # {}
  <2> DEFINE n == IF Left(row, clock) # {} THEN Min(Left(row, clock))
                  ELSE NextAfter(row.cron, clock)
  <2>1. /\ row \in Row /\ ~row.paused /\ row # None
        /\ row.cron \in Cron /\ row.next \in Nat
        /\ row.grace \in {None, 0, DefaultGrace}
      BY <1>2, DueIsFinite, RowFields
  <2>2. Advanced(row, clock) = [row EXCEPT !.next = n]
      BY <1>2 DEF Advanced
  <2>3. Collected(row, clock) \subseteq Due(row, clock)
      BY DEF Collected
  <2>4. n \in Slot /\ n \in Nat /\ n > row.next
        /\ \A s \in Collected(row, clock) : n > s
    <3>1. CASE Left(row, clock) # {}
      <4>1. Left(row, clock) \subseteq Due(row, clock) /\ Left(row, clock) \subseteq Nat
          BY DueIsFinite DEF Left
      <4>2. n \in Left(row, clock)
          BY <3>1, <4>1, MinIsLeast
      <4>3. /\ n \in Due(row, clock) /\ n \in Nat /\ n \in Slot
            /\ Rank(Due(row, clock), n) >= Reach(row, clock)
          BY <4>1, <4>2, DueIsFinite DEF Left
      <4>4. n > row.next
        <5>1. Rank(Due(row, clock), n) # 0
            BY <4>3 DEF Reach
        <5>2. {x \in Due(row, clock) : x < n} # {}
            BY <5>1, FS_EmptySet DEF Rank
        <5>3. PICK x \in Due(row, clock) : x < n
            BY <5>2
        <5>4. x \in Nat /\ row.next <= x
            BY DueIsFinite
        <5>5. QED BY <2>1, <4>3, <5>3, <5>4
      <4>5. ASSUME NEW s \in Collected(row, clock) PROVE n > s
        <5>1. /\ s \in Due(row, clock) /\ s \in Nat /\ ~Stale(row, clock)
              /\ Rank(Due(row, clock), s) < CatchUpLimit
            BY DueIsFinite DEF Collected
        <5>2. Rank(Due(row, clock), s) \in Nat /\ Rank(Due(row, clock), n) \in Nat
          <6>1. /\ IsFiniteSet({x \in Due(row, clock) : x < s})
                /\ IsFiniteSet({x \in Due(row, clock) : x < n})
              BY DueIsFinite, FS_Subset
          <6>2. QED BY <6>1, FS_CardinalityType DEF Rank
        <5>3. Rank(Due(row, clock), s) < Rank(Due(row, clock), n)
            BY <4>3, <5>1, <5>2 DEF Reach
        <5>4. s < n
            BY <4>3, <5>1, <5>3, RankGrows, DueIsFinite
        <5>5. QED BY <4>3, <5>1, <5>4
      <4>6. QED BY <4>3, <4>4, <4>5
    <3>2. CASE Left(row, clock) = {}
      <4>1. n \in Slot /\ n \in Nat /\ n > clock
          BY <2>1, <3>2, NextAfterIsLater
      <4>2. PICK d \in Due(row, clock) : TRUE
          BY <1>2
      <4>3. d \in Nat /\ d <= clock /\ row.next <= d
          BY DueIsFinite
      <4>4. \A s \in Collected(row, clock) : s \in Nat /\ s <= clock
          BY <2>3, DueIsFinite
      <4>5. QED BY <2>1, <4>1, <4>3, <4>4
    <3>3. QED BY <3>1, <3>2
  <2>5. /\ Advanced(row, clock) \in [cron : Cron, paused : BOOLEAN,
               next : Slot \cup {None}, grace : {None, 0, DefaultGrace}]
        /\ Advanced(row, clock).next = n /\ Advanced(row, clock).paused = row.paused
    <3>1. row \in [cron : Cron, paused : BOOLEAN, next : Slot \cup {None},
                   grace : {None, 0, DefaultGrace}]
        BY <2>1 DEF Row
    <3> HIDE DEF n
    <3>2. QED BY <2>2, <2>4, <3>1
  <2>6. Advanced(row, clock) \in Row
    <3> HIDE DEF n
    <3> QED BY <2>4, <2>5 DEF Row
  <2>7. \A s \in Nat : Past(row, s) => Past(Advanced(row, clock), s)
    <3> HIDE DEF n
    <3> QED BY <2>1, <2>4, <2>5 DEF Past
  <2>8. \A s \in Collected(row, clock) : Past(Advanced(row, clock), s)
    <3> HIDE DEF n
    <3> QED BY <2>4, <2>5 DEF Past
  <2>9. Advanced(row, clock).next > row.next
    <3> HIDE DEF n
    <3> QED BY <2>4, <2>5
  <2>10. QED BY <1>2, <2>3, <2>6, <2>7, <2>8, <2>9
<1>3. QED BY <1>1, <1>2
-----------------------------------------------------------------------------
(* The inductive invariant *)

Item == Task \X Slot

\* Occurrence x is in the hands of a process with record r and starts b.
TakenBy(r, b, x) == b[x] > 0 \/ x \in r.fires

Taken(p, x) == TakenBy(proc[p], starts[p], x)

\* No poll of the list collects occurrence x.
PastIn(list, x) == Past(list[x[1]], x[2])

\* Where commands came late, at w, one process or another may take x again.
Late(w, p, x)     == <<p, x[1]>> \in w
LateSomewhere(w, x) == \E p \in Process : Late(w, p, x)

Threads ==
    \A p \in Process :
        /\ proc[p].thread # "none" /\ proc[p].state = "up" => lock = p
        /\ proc[p].state \notin {"up", "stopped"} =>
             /\ proc[p].thread = "none" /\ \A t \in Task : proc[p].running[t] = 0
             /\ \A clock \in 0..MaxTime : proc[p].waiting[clock] = 0
        /\ proc[p].thread # "firing" => proc[p].fires = {}
        /\ proc[p].state = "new" => \A x \in Item : starts[p][x] = 0

\* What a process has taken is over, and its own list is past it.
Behind ==
    \A p \in Process : \A x \in Item :
        Taken(p, x) =>
            x[2] <= now /\ (~Late(rewound, p, x) => PastIn(proc[p].tasks, x))

\* A process runs the occurrences of a task in order.
Ordered ==
    \A p \in Process : \A x \in proc[p].fires : \A y \in Item :
        y[1] = x[1] /\ starts[p][y] > 0 /\ ~Late(rewound, p, x) => y[2] < x[2]

\* While nobody has saved over a list it had not read: the file and every
\* list that stems from it are past what any process has taken, no two
\* processes take one occurrence, and what one process has taken does not lie
\* after the clock that a command of another, up-to-date, one goes by.
FilePast ==
    \A p \in Process : \A x \in Item :
        Taken(p, x) => PastIn(file, x) \/ LateSomewhere(rewound, x)

ListsPast ==
    \A p, q \in Process : \A x \in Item :
        proc[q].fresh /\ Taken(p, x) =>
            PastIn(proc[q].tasks, x) \/ LateSomewhere(rewound, x)

Apart ==
    \A p, q \in Process : \A x \in Item :
        Taken(p, x) /\ Taken(q, x) => p = q \/ LateSomewhere(rewound, x)

ClocksPast ==
    \A p, q \in Process : \A x \in Item : \A clock \in 0..MaxTime :
        p # q /\ proc[q].fresh /\ Taken(p, x) /\ proc[q].waiting[clock] > 0
            => x[2] <= clock

Shared == ~overwrote => FilePast /\ ListsPast /\ Apart /\ ClocksPast

IInv == TypeOK /\ Threads /\ Behind /\ Ordered /\ Shared /\ NothingUnsaved

-----------------------------------------------------------------------------
LEMMA InitHolds == Init => IInv
<1> SUFFICES ASSUME Init PROVE IInv
    OBVIOUS
<1>1. now = 0 /\ now \in 0..MaxTime /\ lock = None /\ overwrote = FALSE
      /\ rewound = {}
      /\ commands \in 0..MaxCommands /\ faults \in 0..MaxFaults
    BY DEF Init
<1>2. file \in List
  <2>1. \A c \in Cron : Fresh(c, None, 0) \in Row /\ ~Fresh(c, None, 0).paused
      BY <1>1, NewRowIsRow DEF Fresh
  <2>2. \A c \in Cron, paused \in BOOLEAN : SavedBefore(c, paused) \in Row
    <3>1. TAKE c \in Cron, paused \in BOOLEAN
    <3>2. Fresh(c, None, 0) \in [cron : Cron, paused : BOOLEAN,
              next : Slot \cup {None}, grace : {None, 0, DefaultGrace}]
          /\ Fresh(c, None, 0).next # None
        BY <2>1 DEF Row
    <3>3. QED BY <3>2 DEF SavedBefore, Row
  <2>3. QED BY <2>2 DEF Init, List
<1>3. Blank("new") \in Process_
    BY DEF Blank, Process_, Empty, List
<1>4. /\ proc \in [Process -> Process_]
      /\ \A p \in Process : proc[p] = Blank("new")
    BY <1>3 DEF Init
<1>5. /\ starts \in [Process -> [Item -> Nat]]
      /\ \A p \in Process : \A x \in Item : starts[p][x] = 0
    BY DEF Init, Item
<1>6. TypeOK
    BY <1>1, <1>2, <1>4, <1>5 DEF TypeOK, Item
<1>7. Threads
    BY <1>4, <1>5 DEF Threads, Blank
<1>8. \A p \in Process : \A x \in Item : ~Taken(p, x)
    BY <1>4, <1>5 DEF Taken, TakenBy, Blank
<1>9. Behind /\ Shared
    BY <1>8 DEF Behind, Shared, FilePast, ListsPast, Apart, ClocksPast
<1>10. Ordered
    BY <1>4 DEF Ordered, Blank
<1>11. NothingUnsaved
    BY <1>4 DEF NothingUnsaved, Blank
<1>12. QED BY <1>6, <1>7, <1>9, <1>10, <1>11 DEF IInv

-----------------------------------------------------------------------------
(* Steps a process takes on its own list: r is its record after the step,  *)
(* b its starts and w what rewound becomes                                 *)

Own(p, r, b, w) ==
    /\ r \in Process_ /\ b \in [Item -> Nat]
    /\ w \subseteq Process \X Task /\ rewound \subseteq w
    /\ r.state = proc[p].state /\ r.fresh = proc[p].fresh
    /\ r.state \in {"up", "stopped"}
    /\ r.thread # "none" => proc[p].thread # "none"
    /\ r.thread # "firing" => r.fires = {}
    /\ \A clock \in 0..MaxTime :
          r.waiting[clock] > 0 => proc[p].waiting[clock] > 0 \/ clock = now
    \* The list stays past what others have taken and it was past.
    /\ ~overwrote /\ proc[p].fresh =>
          \A q \in Process \ {p} : \A x \in Item :
              Taken(q, x) /\ PastIn(proc[p].tasks, x) => PastIn(r.tasks, x)
    \* It is past what the process itself takes.
    /\ \A x \in Item :
          TakenBy(r, b, x) => x[2] <= now /\ (~Late(w, p, x) => PastIn(r.tasks, x))
    /\ \A x \in Item :
          TakenBy(r, b, x) /\ ~Taken(p, x) => ~PastIn(proc[p].tasks, x)
    /\ \A x \in r.fires : \A y \in Item :
          y[1] = x[1] /\ b[y] > 0 /\ ~Late(w, p, x) => y[2] < x[2]

TakesNothing(p, r, b) == \A x \in Item : TakenBy(r, b, x) => Taken(p, x)

LEMMA FlagsKeepType ==
    ASSUME NEW r \in Process_, NEW f \in BOOLEAN, NEW u \in BOOLEAN
    PROVE  /\ [r EXCEPT !.fresh = f, !.unsaved = u] \in Process_
           /\ [r EXCEPT !.fresh = f] \in Process_
           /\ [r EXCEPT !.unsaved = u] \in Process_
  BY DEF Process_

LEMMA OwnKeeps ==
    ASSUME IInv, NEW p \in Process, NEW r, NEW b, Own(p, r, b, rewound'),
           starts' = [starts EXCEPT ![p] = b],
           now' = now, lock' = lock, commands' \in 0..MaxCommands,
           \/ Save(p, r)
           \/ SaveFails(p, r) /\ TakesNothing(p, r, b)
           \/ /\ SetProc(p, r) /\ TakesNothing(p, r, b)
              /\ r.unsaved \/ (r.tasks = proc[p].tasks /\ ~proc[p].unsaved)
              /\ UNCHANGED <<file, overwrote, faults>>
    PROVE  IInv'
<1>1. /\ proc \in [Process -> Process_] /\ r \in Process_
      /\ starts \in [Process -> [Item -> Nat]] /\ file \in List
      /\ rewound' \subseteq Process \X Task /\ rewound \subseteq rewound'
    BY DEF IInv, TypeOK, Own, Item
<1>2. r.tasks \in List
    BY <1>1 DEF Process_
<1>3. /\ proc' \in [Process -> Process_] /\ file' \in List
      /\ overwrote' \in BOOLEAN /\ faults' \in 0..MaxFaults
      /\ proc'[p].state = r.state /\ proc'[p].thread = r.thread
      /\ proc'[p].fires = r.fires /\ proc'[p].tasks = r.tasks
      /\ proc'[p].waiting = r.waiting
      /\ \A q \in Process \ {p} :
           /\ proc'[q].state = proc[q].state
           /\ proc'[q].thread = proc[q].thread
           /\ proc'[q].fires = proc[q].fires
           /\ proc'[q].tasks = proc[q].tasks
           /\ proc'[q].running = proc[q].running
           /\ proc'[q].waiting = proc[q].waiting
      /\ NothingUnsaved'
  <2>1. overwrote \in BOOLEAN /\ faults \in 0..MaxFaults
      BY DEF IInv, TypeOK
  <2>2. CASE Save(p, r)
    <3>1. /\ proc' \in [Process -> Process_] /\ file' = r.tasks
          /\ overwrote' = (overwrote \/ ~proc[p].fresh) /\ faults' = faults
      <4>1. /\ \A q \in Process : proc[q] \in Process_
            /\ [r EXCEPT !.fresh = TRUE, !.unsaved = FALSE] \in Process_
            /\ \A q \in Process : [proc[q] EXCEPT !.fresh = FALSE] \in Process_
          BY <1>1, FlagsKeepType
      <4>2. QED BY <4>1, <2>2 DEF Save
    <3>2. /\ proc'[p].state = r.state /\ proc'[p].thread = r.thread
          /\ proc'[p].fires = r.fires /\ proc'[p].tasks = r.tasks
          /\ proc'[p].waiting = r.waiting
        BY <1>1, <2>2 DEF Save, Process_
    <3>3. \A q \in Process \ {p} :
            /\ proc'[q].state = proc[q].state
            /\ proc'[q].thread = proc[q].thread
            /\ proc'[q].fires = proc[q].fires
            /\ proc'[q].tasks = proc[q].tasks
            /\ proc'[q].running = proc[q].running
            /\ proc'[q].waiting = proc[q].waiting
            /\ ~proc'[q].fresh
      <4>1. TAKE q \in Process \ {p}
      <4>2. proc'[q] = [proc[q] EXCEPT !.fresh = FALSE] /\ proc[q] \in Process_
          BY <1>1, <2>2 DEF Save
      <4>3. QED BY <4>2 DEF Process_
    <3>4. NothingUnsaved'
        BY <3>1, <3>2, <3>3 DEF NothingUnsaved
    <3>5. overwrote' \in BOOLEAN
        BY <3>1
    <3>6. QED BY <1>2, <2>1, <3>1, <3>2, <3>3, <3>4, <3>5
  <2>3. CASE SaveFails(p, r)
    <3>1. /\ proc' \in [Process -> Process_] /\ file' = file
          /\ overwrote' = overwrote /\ faults' \in 0..MaxFaults
      <4>1. [r EXCEPT !.unsaved = TRUE] \in Process_
          BY <1>1, FlagsKeepType
      <4>2. QED BY <1>1, <4>1, <2>1, <2>3 DEF SaveFails, SetProc
    <3>2. /\ proc'[p].state = r.state /\ proc'[p].thread = r.thread
          /\ proc'[p].fires = r.fires /\ proc'[p].tasks = r.tasks
          /\ proc'[p].waiting = r.waiting /\ proc'[p].unsaved
        BY <1>1, <2>3 DEF SaveFails, SetProc, Process_
    <3>3. \A q \in Process \ {p} : proc'[q] = proc[q]
        BY <1>1, <2>3 DEF SaveFails, SetProc
    <3>4. NothingUnsaved'
        BY <3>1, <3>2, <3>3 DEF NothingUnsaved, IInv
    <3>5. QED BY <1>1, <2>1, <3>1, <3>2, <3>3, <3>4
  <2>4. CASE /\ SetProc(p, r)
             /\ r.unsaved \/ (r.tasks = proc[p].tasks /\ ~proc[p].unsaved)
             /\ UNCHANGED <<file, overwrote, faults>>
    <3>1. /\ proc' \in [Process -> Process_] /\ proc'[p] = r
          /\ \A q \in Process \ {p} : proc'[q] = proc[q]
        BY <1>1, <2>4 DEF SetProc
    <3>2. NothingUnsaved'
        BY <2>4, <3>1 DEF NothingUnsaved, IInv, Own
    <3>3. QED BY <1>1, <2>1, <2>4, <3>1, <3>2
  <2>5. QED BY <2>2, <2>3, <2>4
<1>4. /\ starts' \in [Process -> [Item -> Nat]]
      /\ starts'[p] = b
      /\ \A q \in Process \ {p} : starts'[q] = starts[q]
    BY <1>1 DEF Own
<1>5. /\ \A x \in Item : Taken(p, x)' <=> TakenBy(r, b, x)
      /\ \A q \in Process \ {p} : \A x \in Item : Taken(q, x)' <=> Taken(q, x)
    BY <1>3, <1>4 DEF Taken, TakenBy
<1>6. TypeOK'
    BY <1>1, <1>3, <1>4 DEF IInv, TypeOK, Item
<1>7. Threads'
  <2> DEFINE OK(q) ==
        /\ proc'[q].thread # "none" /\ proc'[q].state = "up" => lock' = q
        /\ proc'[q].state \notin {"up", "stopped"} =>
             /\ proc'[q].thread = "none" /\ \A t \in Task : proc'[q].running[t] = 0
             /\ \A clock \in 0..MaxTime : proc'[q].waiting[clock] = 0
        /\ proc'[q].thread # "firing" => proc'[q].fires = {}
        /\ proc'[q].state = "new" => \A x \in Item : starts'[q][x] = 0
  <2>1. ASSUME NEW q \in Process \ {p}
        PROVE  OK(q)
    <3>1. /\ proc'[q].state = proc[q].state /\ proc'[q].thread = proc[q].thread
          /\ proc'[q].fires = proc[q].fires /\ proc'[q].running = proc[q].running
          /\ proc'[q].waiting = proc[q].waiting /\ starts'[q] = starts[q]
          /\ lock' = lock
        BY <1>3, <1>4
    <3>2. QED BY <3>1 DEF IInv, Threads
  <2>2. OK(p)
    <3>1. /\ r.state \in {"up", "stopped"} /\ r.state = proc[p].state
          /\ r.thread # "none" => proc[p].thread # "none"
          /\ r.thread # "firing" => r.fires = {}
        BY DEF Own
    <3>2. proc[p].thread # "none" /\ proc[p].state = "up" => lock = p
        BY DEF IInv, Threads
    <3>3. /\ proc'[p].state = r.state /\ proc'[p].thread = r.thread
          /\ proc'[p].fires = r.fires /\ lock' = lock
        BY <1>3
    <3>4. QED BY <3>1, <3>2, <3>3
  <2>3. QED BY <2>1, <2>2 DEF Threads
<1>8. Behind'
  <2>1. \A q \in Process, x \in Item :
          ~Late(rewound', q, x) => ~Late(rewound, q, x)
      BY <1>1 DEF Late
  <2>2. QED BY <1>3, <1>5, <2>1 DEF IInv, Behind, Own, PastIn, Late
<1>9. Ordered'
  <2>1. \A q \in Process, x \in Item :
          ~Late(rewound', q, x) => ~Late(rewound, q, x)
      BY <1>1 DEF Late
  <2>2. \A q \in Process : proc[q].fires \subseteq Item
      BY <1>1 DEF Process_, Item
  <2>3. QED BY <1>3, <1>4, <2>1, <2>2 DEF IInv, Ordered, Own, Late
<1>10. Shared'
  <2>1. SUFFICES ASSUME ~overwrote'
                 PROVE  FilePast' /\ ListsPast' /\ Apart' /\ ClocksPast'
      BY DEF Shared
  <2> DEFINE Off(x) == LateSomewhere(rewound', x)
  <2>5. /\ \A x \in Item : LateSomewhere(rewound, x) => Off(x)
        /\ \A q \in Process, x \in Item : Late(rewound', q, x) => Off(x)
      BY <1>1 DEF LateSomewhere, Late
  <2>6. /\ \A x \in Item : LateSomewhere(rewound, x)' <=> Off(x)
        /\ \A q \in Process, x \in Item : Taken(q, x)' => x[2] <= now
    <3>1. \A x \in Item : LateSomewhere(rewound, x)' <=> Off(x)
        BY DEF LateSomewhere, Late
    <3>2. QED BY <1>5, <3>1 DEF IInv, Behind, Own
  <2>7. \A clock \in 0..MaxTime : proc'[p].waiting[clock] > 0
                                    => proc[p].waiting[clock] > 0 \/ clock = now
      BY <1>3 DEF Own
  <2> HIDE DEF Off
  <2>2. CASE Save(p, r)
    <3>1. /\ ~overwrote /\ proc[p].fresh /\ file' = r.tasks
          /\ \A q \in Process \ {p} : ~proc'[q].fresh
        BY <1>1, <2>1, <2>2 DEF Save, Process_
    <3>2. FilePast /\ ListsPast /\ Apart /\ ClocksPast
        BY <3>1 DEF IInv, Shared
    <3>3. \A q \in Process, x \in Item :
            Taken(q, x)' => PastIn(r.tasks, x) \/ Off(x)
      <4>1. TAKE q \in Process, x \in Item
      <4>2. CASE q = p
          BY <1>5, <2>5, <4>2 DEF Own
      <4>3. CASE q # p
        <5>1. Taken(q, x) => PastIn(proc[p].tasks, x) \/ LateSomewhere(rewound, x)
            BY <3>1, <3>2 DEF ListsPast
        <5>2. Taken(q, x) /\ PastIn(proc[p].tasks, x) => PastIn(r.tasks, x)
            BY <3>1, <4>3 DEF Own
        <5>3. QED BY <1>5, <2>5, <4>3, <5>1, <5>2
      <4>4. QED BY <4>2, <4>3
    <3>4. \A q \in Process \ {p} : \A x \in Item :
            Taken(q, x)' /\ Taken(p, x)' => Off(x)
      <4>1. TAKE q \in Process \ {p}
      <4>2. TAKE x \in Item
      <4>3. HAVE Taken(q, x)' /\ Taken(p, x)'
      <4>4. Taken(q, x) /\ (Taken(p, x) \/ ~PastIn(proc[p].tasks, x))
          BY <1>5, <4>3 DEF Own
      <4>5. LateSomewhere(rewound, x)
          BY <3>1, <3>2, <4>4 DEF ListsPast, Apart
      <4>6. QED BY <2>5, <4>5
    <3>5. FilePast'
        BY <2>6, <3>1, <3>3 DEF FilePast, PastIn
    <3>6. ListsPast'
        BY <1>3, <2>6, <3>1, <3>3 DEF ListsPast, PastIn
    <3>7. Apart'
      <4>1. ASSUME NEW q1 \in Process, NEW q2 \in Process, NEW x \in Item,
                   Taken(q1, x)', Taken(q2, x)', q1 # q2
            PROVE  Off(x)
        <5>1. CASE q1 # p /\ q2 # p
            BY <1>5, <2>5, <3>2, <4>1, <5>1 DEF Apart
        <5>2. QED BY <3>4, <4>1, <5>1
      <4>2. QED BY <2>6, <4>1 DEF Apart
    <3>8. ClocksPast'
      <4>1. ASSUME NEW q \in Process, NEW x \in Item, NEW clock \in 0..MaxTime,
                   q # p, Taken(q, x)', proc'[p].waiting[clock] > 0
            PROVE  x[2] <= clock
          BY <1>5, <2>6, <2>7, <3>1, <3>2, <4>1 DEF ClocksPast
      <4>2. QED BY <3>1, <4>1 DEF ClocksPast
    <3>9. QED BY <3>5, <3>6, <3>7, <3>8
  <2>3. CASE ~Save(p, r)
    <3>1. /\ TakesNothing(p, r, b) /\ ~overwrote /\ file' = file
          /\ proc'[p].fresh = r.fresh /\ r.fresh = proc[p].fresh
          /\ \A q \in Process \ {p} : proc'[q] = proc[q]
        BY <1>1, <2>1, <2>3 DEF SaveFails, SetProc, Process_, Own
    <3>2. FilePast /\ ListsPast /\ Apart /\ ClocksPast
        BY <3>1 DEF IInv, Shared
    <3>3. \A q \in Process : \A x \in Item : Taken(q, x)' => Taken(q, x)
        BY <1>5, <3>1 DEF TakesNothing
    <3>4. FilePast'
        BY <2>5, <2>6, <3>1, <3>2, <3>3 DEF FilePast, PastIn
    <3>5. ListsPast'
      <4>1. ASSUME NEW q1 \in Process, NEW q2 \in Process, NEW x \in Item,
                   proc'[q2].fresh, Taken(q1, x)'
            PROVE  PastIn(proc'[q2].tasks, x) \/ Off(x)
        <5>1. CASE q2 # p
            BY <2>5, <3>1, <3>2, <3>3, <4>1, <5>1 DEF ListsPast
        <5>2. CASE q2 = p /\ q1 = p
            BY <1>3, <1>5, <2>5, <4>1, <5>2 DEF Own
        <5>3. CASE q2 = p /\ q1 # p
          <6>1. Taken(q1, x) /\ proc[p].fresh
              BY <3>1, <3>3, <4>1, <5>3
          <6>2. PastIn(proc[p].tasks, x) \/ LateSomewhere(rewound, x)
              BY <3>2, <6>1 DEF ListsPast
          <6>3. PastIn(proc[p].tasks, x) => PastIn(r.tasks, x)
              BY <3>1, <5>3, <6>1 DEF Own
          <6>4. QED BY <1>3, <2>5, <5>3, <6>2, <6>3
        <5>4. QED BY <5>1, <5>2, <5>3
      <4>2. QED BY <2>6, <4>1 DEF ListsPast, PastIn
    <3>6. Apart'
        BY <2>5, <2>6, <3>2, <3>3 DEF Apart
    <3>7. ClocksPast'
      <4>1. ASSUME NEW q1 \in Process, NEW q2 \in Process, NEW x \in Item,
                   NEW clock \in 0..MaxTime, q1 # q2, proc'[q2].fresh,
                   Taken(q1, x)', proc'[q2].waiting[clock] > 0
            PROVE  x[2] <= clock
        <5>1. Taken(q1, x) /\ proc[q2].fresh
            BY <3>1, <3>3, <4>1
        <5>2. proc[q2].waiting[clock] > 0 \/ clock = now
            BY <2>7, <3>1, <4>1
        <5>3. QED BY <2>6, <3>2, <4>1, <5>1, <5>2 DEF ClocksPast
      <4>2. QED BY <4>1 DEF ClocksPast
    <3>8. QED BY <3>4, <3>5, <3>6, <3>7
  <2>4. QED BY <2>2, <2>3
<1>11. QED BY <1>3, <1>6, <1>7, <1>8, <1>9, <1>10 DEF IInv

LEMMA StayOwn ==
    ASSUME IInv, NEW p \in Process, proc[p].state \in {"up", "stopped"}
    PROVE  /\ Own(p, proc[p], starts[p], rewound)
           /\ TakesNothing(p, proc[p], starts[p])
  BY DEF IInv, TypeOK, Threads, Behind, Ordered, Own, TakesNothing, Taken, Item

\* The thread moves and keeps, or loses, some of its fires.
LEMMA ThreadOwn ==
    ASSUME NEW p \in Process, NEW r, NEW b, NEW w, Own(p, r, b, w),
           NEW th \in {"none", "waiting", "polling", "firing"},
           NEW k \in 0..MaxTime, NEW f \in SUBSET r.fires,
           th # "none" => proc[p].thread # "none",
           th # "firing" => f = {}
    PROVE  /\ Own(p, [r EXCEPT !.thread = th, !.woke = k, !.fires = f], b, w)
           /\ TakesNothing(p, r, b) =>
                TakesNothing(p, [r EXCEPT !.thread = th, !.woke = k, !.fires = f], b)
<1> DEFINE n == [r EXCEPT !.thread = th, !.woke = k, !.fires = f]
<1>1. r \in Process_
    BY DEF Own
<1>2. /\ n \in Process_ /\ n.thread = th /\ n.fires = f
      /\ n.state = r.state /\ n.fresh = r.fresh /\ n.tasks = r.tasks
      /\ n.waiting = r.waiting
  <2>1. f \in SUBSET (Task \X Slot)
      BY <1>1 DEF Process_
  <2>2. QED BY <1>1, <2>1 DEF Process_
<1> HIDE DEF n
<1>3. \A x \in Item : TakenBy(n, b, x) => TakenBy(r, b, x)
    BY <1>2 DEF TakenBy
<1>4. TakesNothing(p, r, b) => TakesNothing(p, n, b)
    BY <1>3 DEF TakesNothing
<1>5. Own(p, n, b, w)
    BY <1>2, <1>3 DEF Own
<1>6. QED BY <1>4, <1>5 DEF n

LEMMA RunningOwn ==
    ASSUME NEW p \in Process, NEW r, NEW b, NEW w, Own(p, r, b, w),
           NEW t \in Task
    PROVE  /\ Own(p, Begun(r, t), b, w)
           /\ TakesNothing(p, r, b) => TakesNothing(p, Begun(r, t), b)
           /\ r.running[t] > 0 =>
                /\ Own(p, Ended(r, t), b, w)
                /\ TakesNothing(p, r, b) => TakesNothing(p, Ended(r, t), b)
<1>1. r \in Process_
    BY DEF Own
<1>2. ASSUME NEW n, n \in {Begun(r, t), Ended(r, t)},
             n.running \in [Task -> Nat]
      PROVE  /\ Own(p, n, b, w)
             /\ TakesNothing(p, r, b) => TakesNothing(p, n, b)
  <2>1. n = [r EXCEPT !.running = n.running]
      BY <1>1, <1>2 DEF Begun, Ended, Process_
  <2>2. /\ n \in Process_ /\ n.thread = r.thread /\ n.fires = r.fires
        /\ n.state = r.state /\ n.fresh = r.fresh /\ n.tasks = r.tasks
        /\ n.waiting = r.waiting
      BY <1>1, <1>2, <2>1 DEF Process_
  <2>3. QED BY <2>2 DEF Own, TakesNothing, TakenBy
<1>3. r.running \in [Task -> Nat]
    BY <1>1 DEF Process_
<1>4. Begun(r, t).running \in [Task -> Nat]
  <2>1. Begun(r, t).running = [r.running EXCEPT ![t] = r.running[t] + 1]
      BY <1>1 DEF Begun, Process_
  <2>2. QED BY <1>3, <2>1
<1>5. r.running[t] > 0 => Ended(r, t).running \in [Task -> Nat]
  <2>1. Ended(r, t).running = [r.running EXCEPT ![t] = r.running[t] - 1]
      BY <1>1 DEF Ended, Process_
  <2>2. QED BY <1>3, <2>1
<1>6. QED BY <1>2, <1>4, <1>5

LEMMA ServedOwn ==
    ASSUME NEW p \in Process, NEW r, NEW b, NEW w, Own(p, r, b, w),
           NEW clock \in 0..MaxTime, r.waiting[clock] > 0
    PROVE  /\ Own(p, Served(r, clock), b, w)
           /\ TakesNothing(p, r, b) => TakesNothing(p, Served(r, clock), b)
<1> DEFINE n == Served(r, clock)
<1>1. r \in Process_ /\ r.waiting \in [0..MaxTime -> Nat]
    BY DEF Own, Process_
<1>2. n.waiting = [r.waiting EXCEPT ![clock] = r.waiting[clock] - 1]
    BY <1>1 DEF Served, Process_
<1>3. /\ n.waiting \in [0..MaxTime -> Nat]
      /\ \A c \in 0..MaxTime : n.waiting[c] > 0 => r.waiting[c] > 0
    BY <1>1, <1>2
<1>4. n = [r EXCEPT !.waiting = n.waiting]
    BY <1>1 DEF Served, Process_
<1>5. /\ n \in Process_ /\ n.thread = r.thread /\ n.fires = r.fires
      /\ n.state = r.state /\ n.fresh = r.fresh /\ n.tasks = r.tasks
    BY <1>1, <1>3, <1>4 DEF Process_
<1> HIDE DEF n
<1>6. Own(p, n, b, w) /\ (TakesNothing(p, r, b) => TakesNothing(p, n, b))
    BY <1>3, <1>5 DEF Own, TakesNothing, TakenBy
<1>7. QED BY <1>6 DEF n

\* Row may replace t's row: it stays past what the old one was past, but for
\* what lies after the clock that a waiting command goes by.
Replaces(p, t, row, w) ==
    \A s \in Slot : Past(proc[p].tasks[t], s) =>
        \/ Past(row, s)
        \/ \E clock \in 0..MaxTime :
              /\ proc[p].waiting[clock] > 0 /\ clock < s
              /\ Rewinds(p, t, clock) => <<p, t>> \in w

LEMMA EditOwn ==
    ASSUME IInv, NEW p \in Process, proc[p].state \in {"up", "stopped"},
           NEW t \in Task, NEW row \in Row \cup {None},
           NEW w \in SUBSET (Process \X Task), rewound \subseteq w,
           Replaces(p, t, row, w)
    PROVE  /\ Own(p, WithRow(proc[p], t, row), starts[p], w)
           /\ TakesNothing(p, WithRow(proc[p], t, row), starts[p])
           /\ WithRow(proc[p], t, row).waiting = proc[p].waiting
<1> DEFINE n == WithRow(proc[p], t, row)
<1>1. /\ Own(p, proc[p], starts[p], rewound)
      /\ TakesNothing(p, proc[p], starts[p])
      /\ proc[p] \in Process_ /\ now \in 0..MaxTime
    BY StayOwn DEF Own, IInv, TypeOK
<1>2. proc[p].tasks \in List
    BY <1>1 DEF Process_
<1>3. n.tasks = [proc[p].tasks EXCEPT ![t] = row] /\ n.tasks \in List
    BY <1>1, <1>2 DEF WithRow, List, Process_
<1>4. /\ n = [proc[p] EXCEPT !.tasks = n.tasks]
    BY <1>1 DEF WithRow, Process_
<1>5. /\ n \in Process_ /\ n.thread = proc[p].thread
      /\ n.fires = proc[p].fires /\ n.waiting = proc[p].waiting
      /\ n.state = proc[p].state /\ n.fresh = proc[p].fresh
    BY <1>1, <1>3, <1>4 DEF Process_
<1>6. ASSUME NEW x \in Item, PastIn(proc[p].tasks, x), ~PastIn(n.tasks, x)
      PROVE  /\ x[1] = t
             /\ \E clock \in 0..MaxTime :
                  /\ proc[p].waiting[clock] > 0 /\ clock < x[2]
                  /\ Rewinds(p, t, clock) => <<p, t>> \in w
  <2>1. x[1] \in Task /\ x[2] \in Nat /\ x[2] \in Slot
      BY SlotsAreTimes DEF Item
  <2>2. x[1] = t => n.tasks[x[1]] = row
      BY <1>2, <1>3 DEF List
  <2>3. x[1] # t => n.tasks[x[1]] = proc[p].tasks[x[1]]
      BY <1>2, <1>3, <2>1 DEF List
  <2>4. QED BY <1>6, <2>1, <2>2, <2>3 DEF PastIn, Replaces
<1>7. ~overwrote /\ proc[p].fresh =>
        \A q \in Process \ {p} : \A x \in Item :
            Taken(q, x) /\ PastIn(proc[p].tasks, x) => PastIn(n.tasks, x)
  <2>1. SUFFICES ASSUME ~overwrote, proc[p].fresh, NEW q \in Process \ {p},
                        NEW x \in Item, Taken(q, x), PastIn(proc[p].tasks, x),
                        ~PastIn(n.tasks, x)
                 PROVE  FALSE
      OBVIOUS
  <2>2. PICK clock \in 0..MaxTime : proc[p].waiting[clock] > 0 /\ clock < x[2]
      BY <1>6, <2>1
  <2>3. x[2] <= clock
      BY <2>1, <2>2 DEF IInv, Shared, ClocksPast
  <2>4. x[2] \in Nat
      BY SlotsAreTimes DEF Item
  <2>5. QED BY <2>2, <2>3, <2>4
<1>8. ASSUME NEW x \in Item, Taken(p, x)
      PROVE  x[2] <= now /\ (~Late(w, p, x) => PastIn(n.tasks, x))
  <2>1. x[2] <= now
      BY <1>8 DEF IInv, Behind
  <2>2. SUFFICES ASSUME ~Late(w, p, x), ~PastIn(n.tasks, x) PROVE FALSE
      BY <2>1
  <2>3. PastIn(proc[p].tasks, x)
      BY <1>8, <2>2 DEF IInv, Behind, Late
  <2>4. PICK clock \in 0..MaxTime :
          clock < x[2] /\ (Rewinds(p, t, clock) => <<p, t>> \in w)
      BY <1>6, <2>2, <2>3
  <2>5. x[1] = t /\ x = <<t, x[2]>> /\ x[2] \in Slot
      BY <1>6, <2>2, <2>3 DEF Item
  <2>6. Rewinds(p, t, clock)
      BY <1>8, <2>4, <2>5 DEF Rewinds, Taken, TakenBy
  <2>7. QED BY <2>2, <2>4, <2>5, <2>6 DEF Late
<1>9. \A x \in proc[p].fires : \A y \in Item :
        y[1] = x[1] /\ starts[p][y] > 0 /\ ~Late(w, p, x) => y[2] < x[2]
    BY <1>1 DEF Own, Late
<1> HIDE DEF n
<1>10. Own(p, n, starts[p], w) /\ TakesNothing(p, n, starts[p])
    BY <1>1, <1>5, <1>7, <1>8, <1>9 DEF Own, TakesNothing, TakenBy, Taken
<1>11. QED BY <1>5, <1>10 DEF n
-----------------------------------------------------------------------------
(* The commands and the end of a run *)

LEMMA RowOfTask ==
    ASSUME IInv, NEW p \in Process, NEW t \in Task
    PROVE  /\ proc[p].tasks[t] \in Row \cup {None}
           /\ proc[p].tasks \in List /\ proc[p] \in Process_
           /\ now \in 0..MaxTime
<1>1. proc[p] \in Process_ /\ now \in 0..MaxTime
    BY DEF IInv, TypeOK
<1>2. proc[p].tasks \in List
    BY <1>1 DEF Process_
<1>3. QED BY <1>1, <1>2 DEF List

LEMMA EditKeeps ==
    ASSUME IInv, NEW p \in Process, NEW t \in Task,
           NEW row \in Row \cup {None}, Replaces(p, t, row, rewound),
           Edit(p, t, row)
    PROVE  IInv'
<1>1. rewound \in SUBSET (Process \X Task) /\ rewound' = rewound
    BY DEF Edit, IInv, TypeOK
<1>2. /\ Own(p, WithRow(proc[p], t, row), starts[p], rewound')
      /\ TakesNothing(p, WithRow(proc[p], t, row), starts[p])
    BY <1>1, EditOwn DEF Edit, Call
<1>3. starts' = [starts EXCEPT ![p] = starts[p]]
    BY DEF Edit, Call, IInv, TypeOK
<1>4. commands' \in 0..MaxCommands /\ now' = now /\ lock' = lock
    BY DEF Edit, Call, IInv, TypeOK
<1>5. \/ Save(p, WithRow(proc[p], t, row))
      \/ SaveFails(p, WithRow(proc[p], t, row))
    BY DEF Edit
<1>6. QED BY <1>2, <1>3, <1>4, <1>5, OwnKeeps

LEMMA ReadClockKeeps ==
    ASSUME IInv, NEW p \in Process, ReadClock(p)
    PROVE  IInv'
<1> DEFINE r == [proc[p] EXCEPT !.waiting[now] = @ + 1]
<1>1. /\ proc[p].state = "up" /\ SetProc(p, r)
      /\ UNCHANGED <<file, overwrote, rewound, faults>>
      /\ starts' = [starts EXCEPT ![p] = starts[p]]
      /\ commands' \in 0..MaxCommands /\ now' = now /\ lock' = lock
    BY DEF ReadClock, Call, IInv, TypeOK
<1>2. /\ Own(p, proc[p], starts[p], rewound)
      /\ TakesNothing(p, proc[p], starts[p])
      /\ proc[p] \in Process_ /\ now \in 0..MaxTime
      /\ proc[p].waiting \in [0..MaxTime -> Nat]
    BY <1>1, StayOwn DEF IInv, TypeOK, Process_
<1>3. r.waiting = [proc[p].waiting EXCEPT ![now] = proc[p].waiting[now] + 1]
    BY <1>2 DEF Process_
<1>4. /\ r.waiting \in [0..MaxTime -> Nat]
      /\ \A c \in 0..MaxTime :
           r.waiting[c] > 0 => proc[p].waiting[c] > 0 \/ c = now
  <2> HIDE DEF r
  <2>1. now \in 0..MaxTime /\ proc[p].waiting[now] + 1 \in Nat
      BY <1>2
  <2>2. QED BY <1>2, <1>3, <2>1
<1>5. r = [proc[p] EXCEPT !.waiting = r.waiting]
    BY <1>2 DEF Process_
<1>6. /\ r \in Process_ /\ r.thread = proc[p].thread
      /\ r.fires = proc[p].fires /\ r.unsaved = proc[p].unsaved
      /\ r.state = proc[p].state /\ r.fresh = proc[p].fresh
      /\ r.tasks = proc[p].tasks
    BY <1>2, <1>4, <1>5 DEF Process_
<1> HIDE DEF r
<1>7. Own(p, r, starts[p], rewound') /\ TakesNothing(p, r, starts[p])
    BY <1>1, <1>2, <1>4, <1>6 DEF Own, TakesNothing, TakenBy
<1>8. QED BY <1>1, <1>6, <1>7, OwnKeeps

\* A row set by the clock that a waiting command has read.
LEMMA RescheduledOwn ==
    ASSUME IInv, NEW p \in Process, NEW t \in Task, NEW clock \in Waiting(p),
           NEW row \in Row,
           \A s \in Slot : Past(proc[p].tasks[t], s) => Past(row, s) \/ clock < s,
           rewound' = IF Rewinds(p, t, clock) THEN rewound \cup {<<p, t>>}
                      ELSE rewound
    PROVE  LET r == Rescheduled(p, t, row, clock) IN
           /\ Own(p, r, starts[p], rewound') /\ TakesNothing(p, r, starts[p])
           /\ Own(p, Begun(r, t), starts[p], rewound')
           /\ TakesNothing(p, Begun(r, t), starts[p])
<1> DEFINE n == WithRow(proc[p], t, row)
<1>1. /\ clock \in 0..MaxTime /\ proc[p].waiting[clock] > 0
      /\ proc[p].waiting[clock] # 0
      /\ rewound \in SUBSET (Process \X Task)
    BY DEF Waiting, IInv, TypeOK
<1>2. proc[p].state \in {"up", "stopped"}
    BY <1>1 DEF IInv, Threads
<1>3. /\ rewound' \in SUBSET (Process \X Task) /\ rewound \subseteq rewound'
      /\ Rewinds(p, t, clock) => <<p, t>> \in rewound'
    BY <1>1
<1>4. Replaces(p, t, row, rewound')
    BY <1>1, <1>3 DEF Replaces
<1>5. /\ Own(p, n, starts[p], rewound') /\ TakesNothing(p, n, starts[p])
      /\ n.waiting = proc[p].waiting
    BY <1>2, <1>3, <1>4, EditOwn
<1> HIDE DEF n
<1>6. /\ Own(p, Served(n, clock), starts[p], rewound')
      /\ TakesNothing(p, Served(n, clock), starts[p])
    BY <1>1, <1>5, ServedOwn
<1>7. QED BY <1>6, RunningOwn DEF Rescheduled, n

LEMMA RescheduleKeeps ==
    ASSUME IInv, NEW p \in Process, NEW t \in Task, NEW clock \in Waiting(p),
           NEW row \in Row,
           \A s \in Slot : Past(proc[p].tasks[t], s) => Past(row, s) \/ clock < s,
           Reschedule(p, t, row, clock)
    PROVE  IInv'
<1> DEFINE r == Rescheduled(p, t, row, clock)
<1>1. Own(p, r, starts[p], rewound') /\ TakesNothing(p, r, starts[p])
    BY RescheduledOwn DEF Reschedule
<1>2. /\ starts' = [starts EXCEPT ![p] = starts[p]]
      /\ commands' \in 0..MaxCommands /\ now' = now /\ lock' = lock
    BY DEF Reschedule, IInv, TypeOK
<1>3. Save(p, r) \/ SaveFails(p, r)
    BY DEF Reschedule
<1> HIDE DEF r
<1>4. QED BY <1>1, <1>2, <1>3, OwnKeeps

\* Times between 0 and the clock are past a run set after it.
LEMMA AfterClock ==
    ASSUME NEW row, NEW clock \in Nat, \A s \in Nat : s <= clock => Past(row, s)
    PROVE  \A s \in Slot : Past(row, s) \/ clock < s
  BY SlotsAreTimes

LEMMA CommandsKeep ==
    ASSUME IInv, NEW p \in Process, NEW t \in Task, Commands(p, t)
    PROVE  IInv'
<1> DEFINE row == proc[p].tasks[t]
<1>1. /\ row \in Row \cup {None} /\ now \in 0..MaxTime
      /\ \A clock \in Waiting(p) : clock \in 0..MaxTime
    BY RowOfTask DEF Waiting
<1>2. CASE Add(p, t)
  <2>1. PICK c \in Cron, clock \in Waiting(p) :
          Reschedule(p, t, Fresh(c, row, clock), clock)
      BY <1>2 DEF Add
  <2>2. /\ Fresh(c, row, clock) \in Row
        /\ \A s \in Slot : Past(Fresh(c, row, clock), s) \/ clock < s
      BY <1>1, NewRowIsRow, AfterClock
  <2>3. QED BY <2>1, <2>2, RescheduleKeeps
<1>3. CASE Remove(p, t)
  <2>1. Replaces(p, t, None, rewound)
      BY DEF Replaces, Past
  <2>2. QED BY <1>3, <2>1, EditKeeps DEF Remove
<1>4. CASE Pause(p, t)
  <2> DEFINE new == [row EXCEPT !.paused = TRUE, !.next = None]
  <2>1. row \in Row /\ Edit(p, t, new)
      BY <1>1, <1>4 DEF Pause
  <2>2. row \in [cron : Cron, paused : BOOLEAN, next : Slot \cup {None},
                 grace : {None, 0, DefaultGrace}]
      BY <2>1 DEF Row
  <2>3. /\ new \in [cron : Cron, paused : BOOLEAN, next : Slot \cup {None},
                 grace : {None, 0, DefaultGrace}]
        /\ new.paused
      BY <2>2
  <2> HIDE DEF new
  <2>4. new \in Row /\ Replaces(p, t, new, rewound)
      BY <2>3 DEF Row, Past, Replaces
  <2>5. QED BY <2>1, <2>4, EditKeeps
<1>5. CASE Resume(p, t)
  <2>1. row \in Row /\ row.cron \in Cron
      BY <1>1, <1>5, RowFields DEF Resume
  <2>2. PICK clock \in Waiting(p) :
          Reschedule(p, t, Fresh(row.cron, row, clock), clock)
      BY <1>5 DEF Resume
  <2>3. /\ Fresh(row.cron, row, clock) \in Row
        /\ \A s \in Slot : Past(Fresh(row.cron, row, clock), s) \/ clock < s
      BY <1>1, <2>1, NewRowIsRow, AfterClock
  <2>4. QED BY <2>2, <2>3, RescheduleKeeps
<1>6. CASE Update(p, t)
  <2>1. PICK c \in Cron, g \in {None, 0}, clock \in Waiting(p) :
          Reschedule(p, t,
              [row EXCEPT !.cron = c, !.grace = g,
                          !.next = IF row.paused THEN @ ELSE NextAfter(c, clock)],
              clock)
      BY <1>6 DEF Update
  <2> DEFINE n   == IF row.paused THEN row.next ELSE NextAfter(c, clock)
             new == [row EXCEPT !.cron = c, !.grace = g, !.next = n]
  <2>2. row \in Row /\ clock \in 0..MaxTime
      BY <1>1, <1>6 DEF Update
  <2>3. n \in Slot \cup {None} /\ (~row.paused => n \in Slot /\ n > clock /\ n \in Nat)
      BY <2>2, RowFields, NextAfterIsLater
  <2>4. Reschedule(p, t, new, clock)
      BY <2>1
  <2> HIDE DEF n
  <2>5. new \in Row /\ \A s \in Nat : row.paused \/ n > s => Past(new, s)
      BY <2>2, <2>3, MovedRowIsRow
  <2> HIDE DEF new
  <2>6. \A s \in Slot : Past(new, s) \/ clock < s
      BY <2>2, <2>3, <2>5, SlotsAreTimes
  <2>7. QED BY <2>4, <2>5, <2>6, RescheduleKeeps
<1>7. CASE RunNow(p, t)
  <2>1. row \in Row /\ row # None
      BY <1>1, <1>7 DEF RunNow
  <2>2. PICK clock \in Waiting(p) :
          LET r == Rescheduled(p, t, [row EXCEPT !.next = NextAfter(row.cron, clock)],
                               clock) IN
          /\ Save(p, IF PoolOpen(p) THEN Begun(r, t) ELSE r) \/ SaveFails(p, r)
          /\ rewound' = IF Rewinds(p, t, clock) THEN rewound \cup {<<p, t>>}
                        ELSE rewound
          /\ UNCHANGED <<now, lock, starts, commands>>
      BY <1>7 DEF RunNow
  <2> DEFINE n   == NextAfter(row.cron, clock)
             new == [row EXCEPT !.next = n]
             r   == Rescheduled(p, t, new, clock)
  <2>3. /\ row.cron \in Cron /\ row.grace \in {None, 0, DefaultGrace}
        /\ n \in Slot /\ n > clock /\ n \in Nat /\ clock \in 0..MaxTime
      BY <1>1, <2>1, RowFields, NextAfterIsLater
  <2>4. new = [row EXCEPT !.cron = row.cron, !.grace = row.grace, !.next = n]
      BY <2>1 DEF Row
  <2>5. new \in Row /\ \A s \in Nat : row.paused \/ n > s => Past(new, s)
      BY <2>1, <2>3, <2>4, MovedRowIsRow
  <2>6. \A s \in Slot : Past(new, s) \/ clock < s
    <3> HIDE DEF new, n
    <3> QED BY <2>3, <2>5, SlotsAreTimes
  <2>7. /\ Own(p, r, starts[p], rewound') /\ TakesNothing(p, r, starts[p])
        /\ Own(p, Begun(r, t), starts[p], rewound')
        /\ TakesNothing(p, Begun(r, t), starts[p])
      BY <2>2, <2>5, <2>6, RescheduledOwn
  <2>8. /\ starts' = [starts EXCEPT ![p] = starts[p]]
        /\ commands' \in 0..MaxCommands /\ now' = now /\ lock' = lock
      BY <2>2 DEF IInv, TypeOK
  <2>9. Save(p, Begun(r, t)) \/ Save(p, r) \/ SaveFails(p, r)
      BY <2>2
  <2> HIDE DEF r
  <2>10. QED BY <2>7, <2>8, <2>9, OwnKeeps
<1>8. CASE UpdateRefused(p, t)
  <2>1. PICK c \in Cron, g \in {row.grace, None, 0} :
          SetProc(p, [WithRow(proc[p], t, [row EXCEPT !.cron = c, !.grace = g])
                         EXCEPT !.unsaved = TRUE])
      BY <1>8 DEF UpdateRefused
  <2> DEFINE new == [row EXCEPT !.cron = c, !.grace = g]
             n   == WithRow(proc[p], t, new)
             r   == [n EXCEPT !.unsaved = TRUE]
  <2>2. /\ row \in Row /\ proc[p].state = "up"
        /\ UNCHANGED <<file, overwrote, rewound, faults>>
        /\ starts' = [starts EXCEPT ![p] = starts[p]]
        /\ commands' \in 0..MaxCommands /\ now' = now /\ lock' = lock
      BY <1>1, <1>8 DEF UpdateRefused, Call, IInv, TypeOK
  <2>3. /\ row.next \in Slot \cup {None} /\ g \in {None, 0, DefaultGrace}
        /\ ~row.paused => row.next \in Slot /\ row.next \in Nat
        /\ row # None
      BY <2>2, RowFields
  <2> DEFINE nx == row.next
  <2>4. new = [row EXCEPT !.cron = c, !.grace = g, !.next = nx]
      BY <2>2 DEF Row
  <2>5. /\ new \in Row
        /\ \A s \in Nat : row.paused \/ nx > s => Past(new, s)
    <3> HIDE DEF new, nx
    <3>1. nx \in Slot \cup {None} /\ (~row.paused => nx \in Slot)
        BY <2>3 DEF nx
    <3>2. QED BY <2>2, <2>3, <2>4, <3>1, MovedRowIsRow
  <2> HIDE DEF new
  <2>6. Replaces(p, t, new, rewound)
      BY <2>3, <2>5, SlotsAreTimes DEF Replaces, Past
  <2>7. /\ Own(p, n, starts[p], rewound) /\ TakesNothing(p, n, starts[p])
    <3>1. rewound \in SUBSET (Process \X Task)
        BY DEF IInv, TypeOK
    <3>2. QED BY <2>2, <2>5, <2>6, <3>1, EditOwn
  <2>8. n \in Process_
      BY <2>7 DEF Own
  <2> HIDE DEF n
  <2>9. /\ r \in Process_ /\ r.thread = n.thread /\ r.fires = n.fires
        /\ r.state = n.state /\ r.fresh = n.fresh /\ r.tasks = n.tasks
        /\ r.waiting = n.waiting /\ r.unsaved
      BY <2>8 DEF Process_
  <2>10. SetProc(p, r)
      BY <2>1 DEF n, new
  <2> HIDE DEF r
  <2>11. Own(p, r, starts[p], rewound') /\ TakesNothing(p, r, starts[p])
      BY <2>2, <2>7, <2>9 DEF Own, TakesNothing, TakenBy
  <2>12. QED BY <2>2, <2>9, <2>10, <2>11, OwnKeeps
<1>9. QED BY <1>2, <1>3, <1>4, <1>5, <1>6, <1>7, <1>8 DEF Commands

LEMMA FinishKeeps ==
    ASSUME IInv, NEW p \in Process, NEW t \in Task, Finish(p, t)
    PROVE  IInv'
<1> DEFINE r == Ended(proc[p], t)
<1>1. /\ proc[p] \in Process_ /\ proc[p].running[t] > 0
      /\ proc[p].running[t] # 0
    BY RowOfTask DEF Finish, Process_
<1>2. proc[p].state \in {"up", "stopped"}
    BY <1>1 DEF IInv, Threads
<1>3. Own(p, r, starts[p], rewound') /\ TakesNothing(p, r, starts[p])
    BY <1>1, <1>2, StayOwn, RunningOwn DEF Finish
<1>4. /\ starts' = [starts EXCEPT ![p] = starts[p]]
      /\ commands' \in 0..MaxCommands /\ now' = now /\ lock' = lock
    BY DEF Finish, IInv, TypeOK
<1>5. r.tasks = proc[p].tasks /\ r.unsaved = proc[p].unsaved
    BY <1>1 DEF Ended, Process_
<1>6. \/ Save(p, r) \/ SaveFails(p, r)
      \/ SetProc(p, r) /\ UNCHANGED <<file, overwrote, faults>>
    BY DEF Finish
<1>7. QED BY <1>3, <1>4, <1>5, <1>6, OwnKeeps

-----------------------------------------------------------------------------
(* The polling thread *)

LEMMA ThreadLives ==
    ASSUME IInv, NEW p \in Process, proc[p].thread # "none"
    PROVE  /\ proc[p].state \in {"up", "stopped"}
           /\ Own(p, proc[p], starts[p], rewound)
           /\ TakesNothing(p, proc[p], starts[p])
           /\ proc[p] \in Process_
<1>1. proc[p].state \in {"up", "stopped"}
    BY DEF IInv, Threads
<1>2. QED BY <1>1, StayOwn, RowOfTask DEF IInv, TypeOK

\* Steps of the thread that neither write the list nor take a fire.
LEMMA QuietKeeps ==
    ASSUME IInv, NEW p \in Process,
           NEW th \in {"none", "waiting", "polling", "firing"},
           NEW k \in 0..MaxTime, NEW f \in SUBSET proc[p].fires,
           proc[p].thread # "none", th # "firing" => f = {},
           SetProc(p, [proc[p] EXCEPT !.thread = th, !.woke = k, !.fires = f]),
           UNCHANGED <<now, file, lock, starts, overwrote, rewound, commands, faults>>
    PROVE  IInv'
<1> DEFINE r == [proc[p] EXCEPT !.thread = th, !.woke = k, !.fires = f]
<1>1. Own(p, r, starts[p], rewound') /\ TakesNothing(p, r, starts[p])
    BY ThreadLives, ThreadOwn
<1>2. r.tasks = proc[p].tasks /\ r.unsaved = proc[p].unsaved
    BY ThreadLives DEF Process_
<1>3. /\ starts' = [starts EXCEPT ![p] = starts[p]]
      /\ commands' \in 0..MaxCommands /\ now' = now /\ lock' = lock
      /\ UNCHANGED <<file, overwrote, faults>>
    BY DEF IInv, TypeOK
<1>4. SetProc(p, r)
    OBVIOUS
<1> HIDE DEF r
<1>5. /\ SetProc(p, r) /\ TakesNothing(p, r, starts[p])
      /\ r.unsaved \/ (r.tasks = proc[p].tasks /\ ~proc[p].unsaved)
      /\ UNCHANGED <<file, overwrote, faults>>
    BY <1>1, <1>2, <1>3, <1>4
<1>6. QED BY <1>1, <1>3, <1>5, OwnKeeps

LEMMA WakeKeeps ==
    ASSUME IInv, NEW p \in Process, Wake(p)
    PROVE  IInv'
<1> DEFINE th == IF proc[p].state = "up" THEN "polling" ELSE "none"
           k  == IF proc[p].state = "up" THEN now ELSE 0
<1>1. /\ proc[p] \in Process_ /\ proc[p].thread # "none" /\ proc[p].fires = {}
      /\ k \in 0..MaxTime
    BY DEF Wake, IInv, TypeOK, Threads
<1>2. [proc[p] EXCEPT !.thread = th, !.woke = k]
      = [proc[p] EXCEPT !.thread = th, !.woke = k, !.fires = {}]
    BY <1>1 DEF Process_
<1>3. SetProc(p, [proc[p] EXCEPT !.thread = th, !.woke = k, !.fires = {}])
    BY <1>2 DEF Wake
<1>4. th \in {"none", "waiting", "polling", "firing"} /\ th # "firing"
    OBVIOUS
<1> HIDE DEF th, k
<1>5. QED BY <1>1, <1>3, <1>4, QuietKeeps DEF Wake

LEMMA SkipKeeps ==
    ASSUME IInv, NEW p \in Process, Skip(p)
    PROVE  IInv'
<1>1. PICK x \in proc[p].fires :
        SetProc(p, Firing(proc[p], proc[p].fires \ {x}))
    BY DEF Skip
<1> DEFINE f  == proc[p].fires \ {x}
           th == IF f = {} THEN "waiting" ELSE "firing"
<1>2. SetProc(p, [proc[p] EXCEPT !.thread = th, !.woke = 0, !.fires = f])
    BY <1>1 DEF Firing
<1>3. /\ f \in SUBSET proc[p].fires /\ 0 \in 0..MaxTime
      /\ th \in {"none", "waiting", "polling", "firing"}
      /\ th # "firing" => f = {}
    OBVIOUS
<1>4. /\ proc[p].thread # "none"
      /\ UNCHANGED <<now, file, lock, starts, overwrote, rewound, commands, faults>>
    BY DEF Skip
<1> HIDE DEF f, th
<1>5. QED BY <1>2, <1>3, <1>4, QuietKeeps

LEMMA FireKeeps ==
    ASSUME IInv, NEW p \in Process, Fire(p)
    PROVE  IInv'
<1>1. PICK x \in proc[p].fires :
        LET r == Firing(proc[p], proc[p].fires \ {x}) IN
        /\ Foremost(p, x) /\ ~Gone(p, x)
        /\ \/ /\ PoolOpen(p)
              /\ Save(p, Begun(r, x[1]))
              /\ starts' = [starts EXCEPT ![p][x] = @ + 1]
           \/ /\ ~PoolOpen(p)
              /\ Save(p, Resting(proc[p]))
              /\ UNCHANGED starts
           \/ /\ SaveFails(p, Resting(proc[p]))
              /\ UNCHANGED starts
    BY DEF Fire
<1>2. /\ proc[p].thread = "firing" /\ now' = now /\ lock' = lock
      /\ commands' \in 0..MaxCommands /\ rewound' = rewound
    BY DEF Fire, IInv, TypeOK
<1>3. /\ Own(p, proc[p], starts[p], rewound) /\ TakesNothing(p, proc[p], starts[p])
      /\ proc[p] \in Process_
    BY <1>2, ThreadLives
<1>4. starts \in [Process -> [Item -> Nat]] /\ x \in Item /\ x[1] \in Task
      /\ x[2] \in Nat
    BY <1>3, SlotsAreTimes DEF IInv, TypeOK, Item, Process_
<1>5. CASE UNCHANGED starts
  <2>1. starts' = [starts EXCEPT ![p] = starts[p]]
      BY <1>4, <1>5
  <2>2. /\ Own(p, Resting(proc[p]), starts[p], rewound)
        /\ TakesNothing(p, Resting(proc[p]), starts[p])
      BY <1>2, <1>3, ThreadOwn, ZeroIsATime DEF Resting
  <2>3. Save(p, Resting(proc[p])) \/ SaveFails(p, Resting(proc[p]))
    <3>1. ~(starts' = [starts EXCEPT ![p][x] = @ + 1])
      <4>1. [starts EXCEPT ![p][x] = @ + 1][p][x] = starts[p][x] + 1
          BY <1>4
      <4>2. QED BY <1>4, <1>5, <4>1
    <3>2. QED BY <1>1, <3>1
  <2>4. QED BY <1>2, <2>1, <2>2, <2>3, OwnKeeps
<1>6. CASE /\ Save(p, Begun(Firing(proc[p], proc[p].fires \ {x}), x[1]))
           /\ starts' = [starts EXCEPT ![p][x] = @ + 1]
  <2> DEFINE f  == proc[p].fires \ {x}
             th == IF f = {} THEN "waiting" ELSE "firing"
             b  == [starts[p] EXCEPT ![x] = starts[p][x] + 1]
             r  == [proc[p] EXCEPT !.thread = th, !.woke = 0, !.fires = f]
  <2>1. starts' = [starts EXCEPT ![p] = b]
      BY <1>4, <1>6
  <2>2. /\ b \in [Item -> Nat] /\ b[x] > 0
        /\ \A y \in Item : y # x => b[y] = starts[p][y]
      BY <1>4
  <2>3. /\ Own(p, r, starts[p], rewound) /\ r.fires = f /\ r.thread = th
        /\ r.tasks = proc[p].tasks
      BY <1>2, <1>3, ThreadOwn, ZeroIsATime DEF Process_
  <2>4. \A y \in Item : TakenBy(r, b, y) => Taken(p, y)
      BY <1>4, <2>2, <2>3 DEF TakenBy, Taken
  <2>5. \A z \in f : \A y \in Item :
          y[1] = z[1] /\ b[y] > 0 /\ ~Late(rewound, p, z) => y[2] < z[2]
    <3>1. TAKE z \in f
    <3>2. TAKE y \in Item
    <3>3. HAVE y[1] = z[1] /\ b[y] > 0 /\ ~Late(rewound, p, z)
    <3>4. z \in proc[p].fires /\ z \in Item /\ z # x /\ z[2] \in Nat
        BY <1>3, SlotsAreTimes DEF Process_, Item
    <3>5. CASE y = x
      <4>1. x[2] <= z[2]
          BY <1>1, <3>3, <3>4, <3>5 DEF Foremost
      <4>2. x[2] # z[2]
          BY <1>4, <3>3, <3>4, <3>5 DEF Item
      <4>3. QED BY <1>4, <3>4, <3>5, <4>1, <4>2
    <3>6. CASE y # x
        BY <2>2, <3>3, <3>4, <3>6 DEF IInv, Ordered
    <3>7. QED BY <3>5, <3>6
  <2> HIDE DEF r, b, f
  <2>6. Own(p, r, b, rewound)
    <3>1. \A y \in Item : Taken(p, y) =>
            y[2] <= now /\ (~Late(rewound, p, y) => PastIn(r.tasks, y))
        BY <2>3 DEF IInv, Behind
    <3>2. QED BY <2>2, <2>3, <2>4, <2>5, <3>1 DEF Own
  <2>7. Own(p, Begun(r, x[1]), b, rewound)
      BY <1>4, <2>6, RunningOwn
  <2>8. Save(p, Begun(r, x[1]))
      BY <1>6 DEF r, f, Firing
  <2>9. QED BY <1>2, <2>1, <2>7, <2>8, OwnKeeps
<1>7. QED BY <1>1, <1>5, <1>6
LEMMA PollKeeps ==
    ASSUME IInv, NEW p \in Process, Poll(p)
    PROVE  IInv'
<1>0. PICK clock \in proc[p].woke..now :
        LET r == [proc[p] EXCEPT !.tasks = Polled(p, clock)] IN
        \/ /\ Changed(p, clock)
           /\ Save(p, Firing(r, Fires(p, clock))) \/ SaveFails(p, Resting(r))
        \/ /\ ~Changed(p, clock)
           /\ SetProc(p, Firing(r, Fires(p, clock)))
           /\ UNCHANGED <<file, overwrote, faults>>
    BY DEF Poll
<1> DEFINE old == proc[p].tasks
           new == Polled(p, clock)
           r   == [proc[p] EXCEPT !.tasks = new]
           f   == Fires(p, clock)
           n   == Firing(r, f)
<1>1. /\ proc[p].thread = "polling" /\ now' = now /\ lock' = lock
      /\ commands' \in 0..MaxCommands /\ now \in 0..MaxTime
      /\ rewound' = rewound
      /\ starts' = [starts EXCEPT ![p] = starts[p]]
      /\ starts[p] \in [Item -> Nat]
    BY DEF Poll, IInv, TypeOK, Item
<1>2. /\ Own(p, proc[p], starts[p], rewound)
      /\ TakesNothing(p, proc[p], starts[p])
      /\ proc[p] \in Process_ /\ proc[p].fires = {} /\ old \in List
      /\ clock \in 0..MaxTime /\ clock <= now
  <2>1. proc[p].fires = {}
      BY <1>1 DEF IInv, Threads
  <2>2. proc[p] \in Process_ /\ old \in List /\ proc[p].woke \in 0..MaxTime
      BY <1>1, ThreadLives DEF Process_
  <2>3. clock \in 0..MaxTime /\ clock <= now
      BY <1>1, <2>2
  <2>4. QED BY <1>1, <2>1, <2>2, <2>3, ThreadLives
<1>3. \A t \in Task : old[t] \in Row \cup {None}
    BY <1>2 DEF List
<1>4. new \in List /\ \A t \in Task : new[t] = Advanced(old[t], clock)
    BY <1>2, <1>3, PollOfRow DEF Polled, List
<1>5. \A x \in Item : PastIn(old, x) => PastIn(new, x)
  <2>1. TAKE x \in Item
  <2>2. x[1] \in Task /\ x[2] \in Nat
      BY SlotsAreTimes DEF Item
  <2>3. QED BY <1>2, <1>3, <1>4, <2>2, PollOfRow DEF PastIn
<1>6. /\ f \subseteq Item
      /\ \A x \in f : x[2] <= now /\ ~PastIn(old, x) /\ PastIn(new, x)
  <2>1. f \subseteq Item
      BY DEF Fires, Item
  <2>2. ASSUME NEW x \in f
        PROVE  x[2] <= now /\ ~PastIn(old, x) /\ PastIn(new, x)
    <3>1. x[1] \in Task /\ x[2] \in Nat /\ x[2] \in Collected(old[x[1]], clock)
        BY <2>1, SlotsAreTimes DEF Fires, Item
    <3>2. x[2] \in Due(old[x[1]], clock) /\ Past(new[x[1]], x[2])
        BY <1>2, <1>3, <1>4, <3>1, PollOfRow
    <3>3. /\ x[2] <= clock /\ old[x[1]].next <= x[2]
          /\ old[x[1]] \in Row /\ ~old[x[1]].paused
        BY <1>2, <1>3, <3>1, <3>2, DueIsFinite
    <3>4. old[x[1]] # None /\ old[x[1]].next \in Nat /\ x[2] <= now
        BY <1>1, <1>2, <3>1, <3>3, RowFields
    <3>5. QED BY <3>1, <3>2, <3>3, <3>4 DEF PastIn, Past
  <2>3. QED BY <2>1, <2>2
<1> HIDE DEF new
<1>7. /\ r \in Process_ /\ r.tasks = new /\ r.fires = {}
      /\ r.state = proc[p].state /\ r.thread = proc[p].thread
      /\ r.fresh = proc[p].fresh /\ r.unsaved = proc[p].unsaved
      /\ r.waiting = proc[p].waiting
    BY <1>2, <1>4 DEF Process_
<1> HIDE DEF r
<1>8. Own(p, r, starts[p], rewound) /\ TakesNothing(p, r, starts[p])
  <2>1. \A x \in Item : TakenBy(r, starts[p], x) => Taken(p, x)
      BY <1>2, <1>7 DEF TakenBy, Taken
  <2>2. \A x \in Item : Taken(p, x) =>
          x[2] <= now /\ (~Late(rewound, p, x) => PastIn(old, x))
      BY DEF IInv, Behind
  <2>3. QED BY <1>1, <1>2, <1>5, <1>7, <2>1, <2>2 DEF Own, TakesNothing
<1>9. /\ n \in Process_ /\ n.tasks = new /\ n.fires = f
      /\ n.state = proc[p].state /\ n.fresh = proc[p].fresh
      /\ n.unsaved = proc[p].unsaved /\ n.waiting = proc[p].waiting
      /\ n.thread # "firing" => n.fires = {}
  <2>1. f \in SUBSET (Task \X Slot)
      BY <1>6 DEF Item
  <2> HIDE DEF f
  <2>2. QED BY <1>7, <2>1, ZeroIsATime DEF Firing, Process_
<1>10. Own(p, n, starts[p], rewound)
  <2>1. \A x \in Item : TakenBy(n, starts[p], x) => Taken(p, x) \/ x \in f
      BY <1>9 DEF TakenBy, Taken
  <2>2. \A x \in Item : Taken(p, x) =>
          x[2] <= now /\ (~Late(rewound, p, x) => PastIn(old, x))
      BY DEF IInv, Behind
  <2>3. \A x \in f : \A y \in Item :
          y[1] = x[1] /\ starts[p][y] > 0 /\ ~Late(rewound, p, x) => y[2] < x[2]
    <3>1. TAKE x \in f
    <3>2. TAKE y \in Item
    <3>3. HAVE y[1] = x[1] /\ starts[p][y] > 0 /\ ~Late(rewound, p, x)
    <3>4. PastIn(old, y)
        BY <2>2, <3>3 DEF Taken, TakenBy, Late
    <3>5. x \in Item /\ x[1] \in Task /\ x[2] \in Nat /\ y[2] \in Nat
          /\ ~PastIn(old, x)
        BY <1>6, SlotsAreTimes DEF Item
    <3>6. old[x[1]] # None /\ ~old[x[1]].paused /\ old[x[1]] \in Row
        BY <1>3, <3>5 DEF PastIn, Past
    <3>7. old[x[1]].next \in Nat
        BY <3>6, RowFields
    <3>8. QED BY <3>3, <3>4, <3>5, <3>6, <3>7 DEF PastIn, Past
  <2> HIDE DEF n, f
  <2>4. QED BY <1>1, <1>2, <1>5, <1>6, <1>9, <2>1, <2>2, <2>3 DEF Own
<1>11. /\ Own(p, Resting(r), starts[p], rewound)
       /\ TakesNothing(p, Resting(r), starts[p])
    BY <1>1, <1>8, <1>7, ThreadOwn, ZeroIsATime DEF Resting
<1>12. CASE Changed(p, clock) /\ Save(p, n)
    BY <1>1, <1>10, <1>12, OwnKeeps
<1>13. CASE Changed(p, clock) /\ SaveFails(p, Resting(r))
    BY <1>1, <1>11, <1>13, OwnKeeps
<1>14. CASE /\ ~Changed(p, clock) /\ SetProc(p, n)
            /\ UNCHANGED <<file, overwrote, faults>>
  <2>1. f = {} /\ new = old
      BY <1>14 DEF Changed, new
  <2>2. TakesNothing(p, n, starts[p])
      BY <1>2, <1>9, <2>1 DEF TakesNothing, TakenBy, Taken
  <2>3. n.tasks = proc[p].tasks /\ n.unsaved = proc[p].unsaved
      BY <1>9, <2>1
  <2> HIDE DEF n
  <2>4. QED BY <1>1, <1>10, <1>14, <2>2, <2>3, OwnKeeps
<1>15. QED BY <1>0, <1>12, <1>13, <1>14 DEF r, new
-----------------------------------------------------------------------------
(* Time passes, processes come and go *)

LEMMA TickKeeps ==
    ASSUME IInv, Tick
    PROVE  IInv'
<1>1. /\ now \in 0..MaxTime /\ now' = now + 1 /\ now' \in 0..MaxTime
      /\ UNCHANGED <<file, lock, proc, starts, overwrote, rewound, commands, faults>>
    BY DEF Tick, IInv, TypeOK
<1>2. \A p \in Process, x \in Item : Taken(p, x)' <=> Taken(p, x)
    BY <1>1 DEF Taken, TakenBy
<1>3. ASSUME NEW x \in Item PROVE x[2] <= now => x[2] <= now'
  <2>1. x[2] \in Nat
      BY SlotsAreTimes DEF Item
  <2>2. QED BY <1>1, <2>1
<1>4. TypeOK'
    BY <1>1 DEF IInv, TypeOK
<1>5. Threads' /\ Ordered' /\ NothingUnsaved'
    BY <1>1 DEF IInv, Threads, Ordered, NothingUnsaved, Late
<1>6. Behind'
    BY <1>1, <1>2, <1>3 DEF IInv, Behind, PastIn, Late
<1>7. Shared'
    BY <1>1, <1>2 DEF IInv, Shared, FilePast, ListsPast, Apart, ClocksPast,
                      PastIn, Late, LateSomewhere
<1>8. QED BY <1>4, <1>5, <1>6, <1>7 DEF IInv

LEMMA LifeKeeps ==
    ASSUME IInv, NEW p \in Process, NEW r \in Process_, SetProc(p, r),
           UNCHANGED <<now, file, starts, overwrote, rewound, commands>>,
           faults' \in 0..MaxFaults, lock' \in Process \cup {None},
           r.state # "new", r.fires \subseteq proc[p].fires,
           r.thread # "none" /\ r.state = "up" => lock' = p,
           \A q \in Process \ {p} : lock = q => lock' = q,
           r.state \notin {"up", "stopped"} =>
               /\ r.thread = "none" /\ \A t \in Task : r.running[t] = 0
               /\ \A clock \in 0..MaxTime : r.waiting[clock] = 0,
           \A clock \in 0..MaxTime :
               r.waiting[clock] > 0 /\ r.fresh =>
                   proc[p].fresh /\ proc[p].waiting[clock] > 0,
           r.thread # "firing" => r.fires = {},
           \A x \in Item :
               Taken(p, x) /\ ~Late(rewound, p, x) => PastIn(r.tasks, x),
           r.fresh => \/ r.tasks = Loaded(file)
                      \/ /\ proc[p].fresh /\ r.tasks = proc[p].tasks
                         /\ r.unsaved = proc[p].unsaved
    PROVE  IInv'
<1>1. /\ proc' \in [Process -> Process_] /\ proc'[p] = r
      /\ \A q \in Process \ {p} : proc'[q] = proc[q]
      /\ file \in List
    BY DEF IInv, TypeOK, SetProc
<1>2. \A q \in Process, x \in Item : Taken(q, x)' => Taken(q, x)
    BY <1>1 DEF Taken, TakenBy
<1>3. TypeOK'
    BY <1>1 DEF IInv, TypeOK
<1>4. Threads'
    BY <1>1 DEF IInv, Threads
<1>5. Behind'
  <2>1. \A q \in Process, x \in Item : Taken(q, x) =>
          /\ x[2] <= now
          /\ ~Late(rewound, q, x) => PastIn(proc'[q].tasks, x)
      BY <1>1 DEF IInv, Behind
  <2>2. QED BY <1>2, <2>1 DEF Behind, PastIn, Late
<1>6. Ordered'
    BY <1>1 DEF IInv, Ordered, Late
<1>7. NothingUnsaved'
  <2>1. r.tasks = Loaded(file) => Loaded(r.tasks) = Loaded(file)
      BY <1>1, LoadedKeeps
  <2>2. QED BY <1>1, <2>1 DEF IInv, NothingUnsaved
<1>8. Shared'
  <2>1. SUFFICES ASSUME ~overwrote
                 PROVE  FilePast' /\ ListsPast' /\ Apart' /\ ClocksPast'
      BY DEF Shared
  <2>2. FilePast /\ ListsPast /\ Apart /\ ClocksPast
      BY <2>1 DEF IInv, Shared
  <2>7. \A x \in Item : LateSomewhere(rewound, x)' <=> LateSomewhere(rewound, x)
      BY DEF LateSomewhere, Late
  <2>3. FilePast' /\ Apart'
      BY <1>2, <2>2, <2>7 DEF FilePast, Apart, PastIn
  <2>4. ASSUME NEW q \in Process, NEW x \in Item, r.fresh, Taken(q, x)
        PROVE  PastIn(r.tasks, x) \/ LateSomewhere(rewound, x)
    <3>1. CASE r.tasks = Loaded(file)
      <4>1. x[1] \in Task /\ x[2] \in Nat
            /\ (PastIn(file, x) \/ LateSomewhere(rewound, x))
          BY <2>2, <2>4, SlotsAreTimes DEF FilePast, Item
      <4>2. QED BY <1>1, <3>1, <4>1, LoadedKeeps DEF PastIn
    <3>2. CASE proc[p].fresh /\ r.tasks = proc[p].tasks
        BY <2>2, <2>4, <3>2 DEF ListsPast
    <3>3. QED BY <2>4, <3>1, <3>2
  <2>5. ListsPast'
    <3>1. \A q1, q2 \in Process : \A x \in Item :
            proc'[q2].fresh /\ Taken(q1, x) =>
                PastIn(proc'[q2].tasks, x) \/ LateSomewhere(rewound, x)
        BY <1>1, <2>2, <2>4 DEF ListsPast
    <3>2. QED BY <1>2, <2>7, <3>1 DEF ListsPast, PastIn
  <2>6. ClocksPast'
    <3>1. \A q \in Process, clock \in 0..MaxTime :
            proc'[q].fresh /\ proc'[q].waiting[clock] > 0 =>
                proc[q].fresh /\ proc[q].waiting[clock] > 0
        BY <1>1
    <3>2. QED BY <1>2, <2>2, <3>1 DEF ClocksPast
  <2>8. QED BY <2>3, <2>5, <2>6
<1>9. QED BY <1>3, <1>4, <1>5, <1>6, <1>7, <1>8 DEF IInv

LEMMA BlankFields ==
    ASSUME NEW s \in {"new", "loaded", "up", "stopped", "gone"}
    PROVE  /\ Blank(s) \in Process_ /\ Blank(s).state = s
           /\ Blank(s).thread = "none" /\ Blank(s).fires = {}
           /\ \A t \in Task : Blank(s).running[t] = 0
           /\ \A clock \in 0..MaxTime :
                Blank(s).waiting[clock] = 0 /\ ~(Blank(s).waiting[clock] > 0)
           /\ Blank(s).fresh = FALSE /\ Blank(s).tasks = Empty
           /\ \A x \in Item : PastIn(Blank(s).tasks, x)
  BY DEF Blank, Process_, Empty, List, PastIn, Past, Item

LEMMA LifecycleKeeps ==
    ASSUME IInv, NEW p \in Process, Lifecycle(p)
    PROVE  IInv'
<1>1. /\ proc[p] \in Process_ /\ lock \in Process \cup {None}
      /\ faults \in 0..MaxFaults /\ file \in List
    BY DEF IInv, TypeOK
<1>2. /\ \A x \in Item :
           Taken(p, x) /\ ~Late(rewound, p, x) => PastIn(proc[p].tasks, x)
      /\ proc[p].thread # "none" /\ proc[p].state = "up" => lock = p
      /\ proc[p].state \notin {"up", "stopped"} =>
           /\ proc[p].thread = "none" /\ \A t \in Task : proc[p].running[t] = 0
           /\ \A clock \in 0..MaxTime : proc[p].waiting[clock] = 0
      /\ proc[p].thread # "firing" => proc[p].fires = {}
      /\ proc[p].state = "new" => \A x \in Item : ~Taken(p, x)
    BY DEF IInv, Threads, Behind, Taken, TakenBy
<1>3. None \notin Process
    BY DEF Process
<1>4. CASE Load(p)
  <2> DEFINE r == [Blank("loaded") EXCEPT !.tasks = Loaded(file),
                                          !.fresh = TRUE]
  <2>1. /\ r \in Process_ /\ r.state = "loaded" /\ r.thread = "none"
        /\ r.fires = {} /\ \A t \in Task : r.running[t] = 0
        /\ r.tasks = Loaded(file) /\ r.waiting = Blank("loaded").waiting
      BY <1>1, BlankFields, LoadedKeeps DEF Process_
  <2>2. SetProc(p, r) /\ proc[p].state = "new" /\ lock' = lock
        /\ faults' = faults
        /\ UNCHANGED <<now, file, starts, overwrote, rewound, commands>>
      BY <1>4 DEF Load, Opens
  <2> HIDE DEF r
  <2>3. QED BY <1>1, <1>2, <2>1, <2>2, BlankFields, LifeKeeps
<1>5. CASE LoadFails(p)
  <2>1. SetProc(p, Blank("loaded")) /\ lock' = lock
        /\ faults' \in 0..MaxFaults
        /\ UNCHANGED <<now, file, starts, overwrote, rewound, commands>>
      BY <1>1, <1>5 DEF LoadFails
  <2>2. QED BY <1>1, <2>1, BlankFields, LifeKeeps
<1>6. CASE Exit(p)
  <2>1. SetProc(p, Blank("gone")) /\ lock' = lock /\ faults' = faults
        /\ UNCHANGED <<now, file, starts, overwrote, rewound, commands>>
      BY <1>6 DEF Exit
  <2>2. QED BY <1>1, <2>1, BlankFields, LifeKeeps
<1>7. CASE Crash(p)
  <2>1. /\ SetProc(p, Blank("gone"))
        /\ lock' \in Process \cup {None} /\ faults' \in 0..MaxFaults
        /\ \A q \in Process \ {p} : lock = q => lock' = q
        /\ UNCHANGED <<now, file, starts, overwrote, rewound, commands>>
      BY <1>1, <1>7 DEF Crash
  <2>2. QED BY <2>1, BlankFields, LifeKeeps
<1>8. ASSUME NEW st \in {"up", "stopped"},
             NEW th \in {"waiting", proc[p].thread},
             SetProc(p, [proc[p] EXCEPT !.state = st, !.thread = th]),
             th # proc[p].thread => proc[p].thread = "none",
             th # "none" /\ st = "up" => lock' = p,
             lock' \in Process \cup {None}, faults' = faults,
             \A q \in Process \ {p} : lock = q => lock' = q,
             UNCHANGED <<now, file, starts, overwrote, rewound, commands>>
      PROVE  IInv'
  <2> DEFINE r == [proc[p] EXCEPT !.state = st, !.thread = th]
  <2>1. /\ r \in Process_ /\ r.state = st /\ r.thread = th
        /\ r.fires = proc[p].fires /\ r.tasks = proc[p].tasks
        /\ r.waiting = proc[p].waiting
        /\ r.fresh = proc[p].fresh /\ r.unsaved = proc[p].unsaved
    <3>1. th \in {"none", "waiting", "polling", "firing"}
        BY <1>1 DEF Process_
    <3>2. QED BY <1>1, <3>1 DEF Process_
  <2>2. SetProc(p, r)
      BY <1>8
  <2>3. r.thread # "firing" => r.fires = {}
      BY <1>2, <1>8, <2>1
  <2> HIDE DEF r
  <2>4. QED BY <1>1, <1>2, <1>8, <2>1, <2>2, <2>3, LifeKeeps
<1>9. CASE Start(p)
  <2>1. [proc[p] EXCEPT !.state = "up"]
        = [proc[p] EXCEPT !.state = "up", !.thread = proc[p].thread]
      BY <1>1 DEF Process_
  <2>2. proc[p].thread = "none"
      BY <1>2, <1>9 DEF Start
  <2>3. QED BY <1>1, <1>8, <1>9, <2>1, <2>2 DEF Start
<1>10. CASE StartPolling(p)
  <2>1. proc[p].thread = "none" /\ lock = None
      BY <1>10 DEF StartPolling, LockFree
  <2>2. QED BY <1>3, <1>8, <1>10, <2>1 DEF StartPolling
<1>11. CASE Stop(p)
  <2>1. [proc[p] EXCEPT !.state = "stopped"]
        = [proc[p] EXCEPT !.state = "stopped", !.thread = proc[p].thread]
      BY <1>1 DEF Process_
  <2>2. QED BY <1>1, <1>8, <1>11, <2>1 DEF Stop
<1>12. QED BY <1>4, <1>5, <1>6, <1>7, <1>9, <1>10, <1>11 DEF Lifecycle
-----------------------------------------------------------------------------
(* The theorems *)

LEMMA StutterKeeps ==
    ASSUME IInv, UNCHANGED vars
    PROVE  IInv'
<1>1. UNCHANGED <<now, file, lock, proc, starts, overwrote, rewound, commands, faults>>
    BY DEF vars
<1>2. QED BY <1>1 DEF IInv, TypeOK, Threads, Behind, Ordered, Shared, FilePast,
                      ListsPast, Apart, ClocksPast, NothingUnsaved, Taken, TakenBy,
                      PastIn, Late, LateSomewhere

LEMMA StepKeeps ==
    ASSUME IInv, [Next]_vars
    PROVE  IInv'
<1>1. CASE Tick
    BY <1>1, TickKeeps
<1>2. ASSUME NEW p \in Process, Lifecycle(p) PROVE IInv'
    BY <1>2, LifecycleKeeps
<1>3. ASSUME NEW p \in Process, Polling(p) PROVE IInv'
    BY <1>3, WakeKeeps, PollKeeps, SkipKeeps, FireKeeps DEF Polling
<1>4. ASSUME NEW p \in Process, NEW t \in Task, Finish(p, t) \/ Commands(p, t)
      PROVE  IInv'
    BY <1>4, FinishKeeps, CommandsKeep
<1>5. CASE UNCHANGED vars
    BY <1>5, StutterKeeps
<1>6. QED BY <1>1, <1>2, <1>3, <1>4, <1>5, ReadClockKeeps DEF Next

\* Every reachable state satisfies the inductive invariant: whatever a process
\* has taken lies behind every list that can still be polled, except where a
\* command came late or somebody saved over a list it had not read.
THEOREM SchedulerInvariant == Spec => []IInv
<1>1. Init => IInv
    BY InitHolds
<1>2. IInv /\ [Next]_vars => IInv'
    BY StepKeeps
<1>3. QED BY <1>1, <1>2, PTL DEF Spec

\* Every variable keeps its type; an active row always has a next run.
THEOREM SchedulerTypes == Spec => []TypeOK
<1>1. IInv => TypeOK
    BY DEF IInv
<1>2. QED BY <1>1, SchedulerInvariant, PTL

\* stop() never leaves two polling threads whose pools both take runs.
THEOREM SinglePoller == Spec => []OnePoller
<1>1. IInv => OnePoller
    BY DEF IInv, Threads, OnePoller, PoolOpen
<1>2. QED BY <1>1, SchedulerInvariant, PTL

\* While nobody saves over a list it had not read, no occurrence runs in two
\* processes, through restarts, crashes and failed saves, unless a command on
\* its task went by a clock older than a run the process had already taken.
THEOREM RunsOnceEver == Spec => []OnceEver
<1>1. IInv => OnceEver
    BY DEF IInv, Shared, Apart, OnceEver, Taken, TakenBy, Item, LateSomewhere, Late
<1>2. QED BY <1>1, SchedulerInvariant, PTL

\* A process whose saves succeed, and whose updates are not refused half way,
\* holds nothing that a restart would not load.
THEOREM SavedIsCurrent == Spec => []NothingUnsaved
<1>1. IInv => NothingUnsaved
    BY DEF IInv
<1>2. QED BY <1>1, SchedulerInvariant, PTL

\* Only Fire starts an occurrence, and the invariant orders it.
LEMMA StartsAreFires ==
    ASSUME IInv, [Next]_vars, NEW p \in Process, NEW x \in Item,
           starts'[p][x] # starts[p][x]
    PROVE  x \in proc[p].fires
<1>1. starts \in [Process -> [Item -> Nat]]
    BY DEF IInv, TypeOK, Item
<1>2. starts' # starts
    OBVIOUS
<1>3. PICK q \in Process : Fire(q)
  <2>1. ~Tick /\ ~UNCHANGED vars
      BY <1>2 DEF Tick, vars
  <2>2. \A q \in Process : ~Lifecycle(q)
      BY <1>2 DEF Lifecycle, Load, LoadFails, Start, StartPolling, Stop, Exit,
                  Crash
  <2>3. \A q \in Process : \A t \in Task : ~Finish(q, t)
      BY <1>2 DEF Finish
  <2>4. /\ \A q \in Process, t \in Task : \A row : ~Edit(q, t, row)
        /\ \A q \in Process, t \in Task : \A row, c : ~Reschedule(q, t, row, c)
        /\ \A q \in Process, t \in Task : ~UpdateRefused(q, t)
        /\ \A q \in Process : ~ReadClock(q)
      BY <1>2 DEF Edit, Reschedule, UpdateRefused, ReadClock, Call
  <2>5. \A q \in Process, t \in Task : ~RunNow(q, t)
      BY <1>2 DEF RunNow
  <2>6. \A q \in Process, t \in Task : ~Commands(q, t)
      BY <2>4, <2>5 DEF Commands, Add, Remove, Pause, Resume, Update
  <2>7. \A q \in Process : ~Wake(q) /\ ~Poll(q) /\ ~Skip(q)
      BY <1>2 DEF Wake, Poll, Skip
  <2>8. QED BY <2>1, <2>2, <2>3, <2>4, <2>6, <2>7 DEF Next, Polling
<1>4. PICK y \in proc[q].fires : starts' = [starts EXCEPT ![q][y] = @ + 1]
    BY <1>2, <1>3 DEF Fire
<1>5. p = q /\ x = y
    BY <1>1, <1>4
<1>6. QED BY <1>4, <1>5

\* A process starts the runs of a task in the order of their times, and an
\* occurrence never twice, whoever writes the file, unless a command on the
\* task went by a clock older than a run it had already taken.
THEOREM RunsAreOrdered == Spec => InOrder
<1>1. ASSUME IInv, [Next]_vars
      PROVE  \A p \in Process : \A x \in Task \X Slot :
               starts'[p][x] # starts[p][x] =>
                 \/ \A s \in Slot : starts[p][<<x[1], s>>] > 0 => s < x[2]
                 \/ <<p, x[1]>> \in rewound
  <2>1. SUFFICES ASSUME NEW p \in Process, NEW x \in Item, NEW s \in Slot,
                        starts'[p][x] # starts[p][x], <<p, x[1]>> \notin rewound,
                        starts[p][<<x[1], s>>] > 0
                 PROVE  s < x[2]
      BY DEF Item
  <2>2. x \in proc[p].fires
      BY <1>1, <2>1, StartsAreFires
  <2>3. <<x[1], s>> \in Item
      BY DEF Item
  <2>4. QED BY <1>1, <2>1, <2>2, <2>3 DEF IInv, Ordered, Late
<1>2. QED BY <1>1, SchedulerInvariant, PTL DEF Spec, InOrder

\* Only its own poll takes a thread from polling to waiting or firing.
LEMMA PollsArePolls ==
    ASSUME IInv, Next, NEW p \in Process, proc[p].thread = "polling",
           proc'[p].thread \in {"waiting", "firing"}
    PROVE  Poll(p)
<1>1. /\ proc \in [Process -> Process_]
      /\ \A q \in Process : proc[q] \in Process_
    BY DEF IInv, TypeOK
<1>2. CASE Tick
    BY <1>2 DEF Tick
<1>3. ASSUME NEW q \in Process, NEW r, "thread" \in DOMAIN r,
             Save(q, r) \/ SaveFails(q, r) \/ SetProc(q, r),
             r.thread \notin {"waiting", "firing"} \/ q # p
      PROVE  FALSE
  <2>1. /\ [r EXCEPT !.fresh = TRUE, !.unsaved = FALSE].thread = r.thread
        /\ [r EXCEPT !.unsaved = TRUE].thread = r.thread
        /\ [proc[p] EXCEPT !.fresh = FALSE].thread = proc[p].thread
      BY <1>1, <1>3 DEF Process_
  <2>2. proc'[p].thread \in {r.thread, proc[p].thread}
        /\ (q # p => proc'[p].thread = proc[p].thread)
      BY <1>1, <1>3, <2>1 DEF Save, SaveFails, SetProc
  <2>3. q = p => proc'[p].thread = r.thread
      BY <1>1, <1>3, <2>1 DEF Save, SaveFails, SetProc
  <2>4. QED BY <1>3, <2>2, <2>3
<1>4. ASSUME NEW q \in Process, Lifecycle(q) PROVE FALSE
  <2> DEFINE fresh == [Blank("loaded") EXCEPT !.tasks = Loaded(file),
                                              !.fresh = TRUE]
  <2>1. /\ fresh.thread = "none" /\ Blank("loaded").thread = "none"
        /\ Blank("gone").thread = "none" /\ "thread" \in DOMAIN fresh
        /\ "thread" \in DOMAIN Blank("loaded")
        /\ "thread" \in DOMAIN Blank("gone")
      BY DEF Blank
  <2>2. ~Load(q)
      BY <1>3, <2>1 DEF Load
  <2>3. ~LoadFails(q) /\ ~Exit(q) /\ ~Crash(q)
      BY <1>3, <2>1 DEF LoadFails, Exit, Crash
  <2>4. \A st : /\ [proc[q] EXCEPT !.state = st].thread = proc[q].thread
               /\ "thread" \in DOMAIN [proc[q] EXCEPT !.state = st]
      BY <1>1 DEF Process_
  <2>5. ~Start(q) /\ ~Stop(q)
      BY <1>3, <2>4 DEF Start, Stop
  <2>6. ~StartPolling(q)
    <3>1. q = p => ~StartPolling(q)
        BY DEF StartPolling
    <3>2. "thread" \in DOMAIN [proc[q] EXCEPT !.state = "up",
                                             !.thread = "waiting"]
        BY <1>1 DEF Process_
    <3>3. QED BY <1>3, <3>1, <3>2 DEF StartPolling
  <2>7. QED BY <1>4, <2>2, <2>3, <2>5, <2>6 DEF Lifecycle
<1>5. ASSUME NEW q \in Process, NEW t \in Task, Finish(q, t) PROVE FALSE
  <2>1. /\ Ended(proc[q], t).thread = proc[q].thread
        /\ "thread" \in DOMAIN Ended(proc[q], t)
      BY <1>1 DEF Ended, Process_
  <2>2. QED BY <1>3, <1>5, <2>1 DEF Finish
<1>6. ASSUME NEW q \in Process, NEW t \in Task, Commands(q, t) PROVE FALSE
  <2>1. \A row, c :
          LET r == Rescheduled(q, t, row, c) IN
          /\ r.thread = proc[q].thread /\ "thread" \in DOMAIN r
          /\ Begun(r, t).thread = proc[q].thread
          /\ "thread" \in DOMAIN Begun(r, t)
      BY <1>1 DEF Rescheduled, Served, WithRow, Begun, Process_
  <2>2. \A row :
          LET r == WithRow(proc[q], t, row) IN
          /\ r.thread = proc[q].thread /\ "thread" \in DOMAIN r
          /\ [r EXCEPT !.unsaved = TRUE].thread = proc[q].thread
          /\ "thread" \in DOMAIN [r EXCEPT !.unsaved = TRUE]
      BY <1>1 DEF WithRow, Process_
  <2>3. /\ \A row : ~Edit(q, t, row)
        /\ \A row, c : ~Reschedule(q, t, row, c)
      BY <1>3, <2>1, <2>2 DEF Edit, Reschedule
  <2>4. ~RunNow(q, t)
    <3>1. SUFFICES ASSUME NEW row, NEW c, NEW n,
                          n \in {Rescheduled(q, t, row, c),
                                 Begun(Rescheduled(q, t, row, c), t)},
                          Save(q, n) \/ SaveFails(q, n)
                   PROVE  FALSE
        BY DEF RunNow
    <3>2. n.thread = proc[q].thread /\ "thread" \in DOMAIN n
        BY <2>1, <3>1
    <3>3. QED BY <1>3, <3>1, <3>2
  <2>5. ~UpdateRefused(q, t)
      BY <1>3, <2>2 DEF UpdateRefused
  <2>6. QED BY <1>6, <2>3, <2>4, <2>5
            DEF Commands, Add, Remove, Pause, Resume, Update
<1>9. ASSUME NEW q \in Process, ReadClock(q) PROVE FALSE
  <2>1. /\ [proc[q] EXCEPT !.waiting[now] = @ + 1].thread = proc[q].thread
        /\ "thread" \in DOMAIN [proc[q] EXCEPT !.waiting[now] = @ + 1]
      BY <1>1 DEF Process_
  <2>2. QED BY <1>3, <1>9, <2>1 DEF ReadClock
<1>7. ASSUME NEW q \in Process, Polling(q) PROVE Poll(p)
  <2>1. CASE q # p
    <3>1. \A th, k, ts, f : LET r == [proc[q] EXCEPT !.tasks = ts] IN
            /\ "thread" \in DOMAIN [proc[q] EXCEPT !.thread = th, !.woke = k]
            /\ "thread" \in DOMAIN Firing(proc[q], f)
            /\ "thread" \in DOMAIN Resting(proc[q])
            /\ "thread" \in DOMAIN Firing(r, f)
            /\ "thread" \in DOMAIN Resting(r)
            /\ \A t : "thread" \in DOMAIN Begun(Firing(proc[q], f), t)
        BY <1>1 DEF Firing, Resting, Begun, Process_
    <3>2. ~Wake(q)
        BY <1>3, <2>1, <3>1 DEF Wake
    <3>3. ~Poll(q)
        BY <1>3, <2>1, <3>1 DEF Poll
    <3>4. ~Skip(q)
        BY <1>3, <2>1, <3>1 DEF Skip
    <3>5. ~Fire(q)
      <4>1. SUFFICES ASSUME Fire(q) PROVE FALSE
          OBVIOUS
      <4>2. PICK x \in proc[q].fires :
              \/ Save(q, Begun(Firing(proc[q], proc[q].fires \ {x}), x[1]))
              \/ Save(q, Resting(proc[q]))
              \/ SaveFails(q, Resting(proc[q]))
          BY <4>1 DEF Fire
      <4> DEFINE r1 == Begun(Firing(proc[q], proc[q].fires \ {x}), x[1])
                 r2 == Resting(proc[q])
      <4>3. "thread" \in DOMAIN r1 /\ "thread" \in DOMAIN r2
          BY <3>1
      <4>4. Save(q, r1) \/ Save(q, r2) \/ SaveFails(q, r2)
          BY <4>2
      <4> HIDE DEF r1, r2
      <4>5. QED BY <1>3, <2>1, <4>3, <4>4
    <3>6. QED BY <1>7, <3>2, <3>3, <3>4, <3>5 DEF Polling
  <2>2. CASE q = p
      BY <1>7, <2>2 DEF Polling, Wake, Skip, Fire
  <2>3. QED BY <2>1, <2>2
<1>8. QED BY <1>2, <1>4, <1>5, <1>6, <1>7, <1>9 DEF Next

\* Every poll of a due schedule moves it forward, also when its save fails.
THEOREM BacklogsEnd == Spec => PollMovesOn
<1>1. ASSUME IInv, Next, NEW p \in Process, NEW t \in Task,
             proc[p].thread = "polling",
             proc'[p].thread \in {"waiting", "firing"},
             Due(proc[p].tasks[t], proc[p].woke) # {}
      PROVE  proc'[p].tasks[t].next > proc[p].tasks[t].next
  <2>1. Poll(p)
      BY <1>1, PollsArePolls
  <2>2. /\ proc[p] \in Process_ /\ proc \in [Process -> Process_]
        /\ proc[p].tasks[t] \in Row \cup {None} /\ now \in 0..MaxTime
        /\ proc[p].woke \in 0..MaxTime
      BY <1>1, RowOfTask DEF IInv, TypeOK, Process_
  <2>3. PICK clock \in proc[p].woke..now :
          LET r == [proc[p] EXCEPT !.tasks = Polled(p, clock)] IN
          \/ Save(p, Firing(r, Fires(p, clock))) \/ SaveFails(p, Resting(r))
          \/ SetProc(p, Firing(r, Fires(p, clock)))
      BY <2>1 DEF Poll
  <2> DEFINE new == Polled(p, clock)
             r   == [proc[p] EXCEPT !.tasks = new]
  <2>4. /\ \A f : /\ Firing(r, f).tasks = new
                  /\ "tasks" \in DOMAIN Firing(r, f)
        /\ Resting(r).tasks = new /\ "tasks" \in DOMAIN Resting(r)
    <3> HIDE DEF new
    <3> QED BY <2>2 DEF Firing, Resting, Process_
  <2>5. ASSUME NEW n, n.tasks = new, "tasks" \in DOMAIN n,
               Save(p, n) \/ SaveFails(p, n) \/ SetProc(p, n)
        PROVE  proc'[p].tasks = new
    <3>1. /\ [n EXCEPT !.fresh = TRUE, !.unsaved = FALSE].tasks = n.tasks
          /\ [n EXCEPT !.unsaved = TRUE].tasks = n.tasks
        BY <2>5
    <3>2. QED BY <2>2, <2>5, <3>1 DEF Save, SaveFails, SetProc
  <2>6. proc'[p].tasks = new
    <3>1. \/ Save(p, Firing(r, Fires(p, clock))) \/ SaveFails(p, Resting(r))
          \/ SetProc(p, Firing(r, Fires(p, clock)))
        BY <2>3
    <3> HIDE DEF r, new
    <3>2. QED BY <2>4, <2>5, <3>1
  <2>7. proc'[p].tasks[t] = Advanced(proc[p].tasks[t], clock)
      BY <2>6 DEF Polled
  <2>8. clock \in 0..MaxTime /\ Due(proc[p].tasks[t], clock) # {}
    <3>1. clock \in 0..MaxTime /\ proc[p].woke <= clock
        BY <2>2
    <3>2. /\ proc[p].tasks[t] # None /\ ~proc[p].tasks[t].paused
          /\ ~(proc[p].woke < proc[p].tasks[t].next)
          /\ proc[p].tasks[t].next # None
        BY <1>1 DEF Due
    <3>3. proc[p].tasks[t].next \in Nat
        BY <2>2, <3>2, RowFields
    <3>4. ~(clock < proc[p].tasks[t].next)
        BY <2>2, <3>1, <3>2, <3>3
    <3>5. QED BY <3>1, <3>2, <3>4 DEF Due
  <2>9. QED BY <2>2, <2>7, <2>8, PollOfRow
<1>2. IInv /\ [Next]_vars =>
        [\A p \in Process, t \in Task :
          /\ proc[p].thread = "polling"
          /\ proc'[p].thread \in {"waiting", "firing"}
          /\ Due(proc[p].tasks[t], proc[p].woke) # {}
          => proc'[p].tasks[t].next > proc[p].tasks[t].next]_vars
    BY <1>1
<1>3. QED BY <1>2, SchedulerInvariant, PTL DEF Spec, PollMovesOn
=============================================================================

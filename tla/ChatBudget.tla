----------------------------- MODULE ChatBudget -----------------------------
(***************************************************************************)
(* The Chat token budget: the SQLite ledger of chat_budget_ledger.py and   *)
(* the scopes of chat_budget_scope.py that every provider call of a turn   *)
(* goes through (core/llm_budget.py).                                      *)
(*                                                                         *)
(* Each method of the ledger is one BEGIN IMMEDIATE transaction run in a   *)
(* thread, so it is one atomic step here, also across processes.  Between  *)
(* the steps of one turn the other turns of the user, cancellation, the    *)
(* six-hour lease of a reservation, midnight and crashes interleave.       *)
(*                                                                         *)
(* The rows of "reservations" and "settlements" of one ticket are one      *)
(* record: its state says which table holds it.  A session id is taken to  *)
(* be the pair of user and session the tables are keyed by.                *)
(***************************************************************************)
EXTENDS TokenSum

CONSTANTS User, Session, Turn, Ticket,
          NoTicket,       \* a turn holds no ticket
          Owner,          \* the user of each session
          SessionBudget,  \* cost.session_token_budget, 0 for none
          DailyBudget,    \* cost.daily_token_budget, 0 for none
          Throttles,      \* the values of cost.throttle_on_budget in use
          Chats,          \* chat turns (TRUE) and workers (FALSE) that run
          Requests,       \* the attempts made: <<input bound, max_tokens>>
          Usages,         \* the tokens one provider call may use
          Faults,         \* which failures happen: see the failure actions
          MaxOverrun,     \* bound: tokens a provider uses beyond its allowance
          MaxTokens       \* bound: tokens of one reservation, charge or turn

ASSUME BudgetAssumption ==
    /\ NoTicket \notin Ticket
    /\ IsFiniteSet(Ticket)
    /\ Owner \in [Session -> User]
    /\ {SessionBudget, DailyBudget, MaxOverrun} \subseteq Nat
    /\ MaxTokens \in Nat \ {0}
    /\ Throttles \subseteq BOOLEAN
    /\ Chats \subseteq BOOLEAN
    /\ Requests \subseteq (1 .. MaxTokens) \X (1 .. MaxTokens)
    /\ \A request \in Requests : request[1] + request[2] <= MaxTokens
    /\ Usages \subseteq 0 .. MaxTokens
    /\ Faults \subseteq {"crash", "lost_release", "ledger_error"}

VARIABLES tickets,       \* the reservations and settlements tables
          sessionUsage,  \* the session_usage table
          dailyUsage,    \* the daily_usage rows of today
          tokenSpend,    \* the token_spend saved with each session
          inherited,     \* the token_spend a branched session was created with
          turns          \* the budget scope of each turn

ledger == <<tickets, sessionUsage, dailyUsage>>
vars == <<tickets, sessionUsage, dailyUsage, tokenSpend, inherited, turns>>

-----------------------------------------------------------------------------
TicketRow == [state : {"active", "settled"},
              turn : Turn, session : Session, reserved : 0 .. MaxTokens,
              hard : BOOLEAN, expired : BOOLEAN,
              actual : 0 .. MaxTokens, overrun : 0 .. MaxTokens]

(* A ticket id that is in neither table.                                   *)
Absent == [state |-> "absent"]

(* Where a turn is: before its preflight; holding the preflight's token;   *)
(* between two attempts; holding a reservation its request does not fit;   *)
(* in a provider call; about to reconcile; holding what it reconciles;     *)
(* about to save the session's spend; over; or lost with its process.      *)
Place == {"idle", "starting", "probing", "ready", "misfit", "calling",
          "ending", "reconciling", "syncing", "ended", "crashed"}

TurnState == [pc : Place, session : Session, chat : BOOLEAN, hard : BOOLEAN,
              cancelled : BOOLEAN, prior : Nat, ticket : Ticket \cup {NoTicket},
              granted : 0 .. MaxTokens, reduced : BOOLEAN,
              charged : Nat, reported : 0 .. MaxTokens]

TypeOK ==
    /\ tickets \in [Ticket -> TicketRow \cup {Absent}]
    /\ sessionUsage \in [Session -> Nat]
    /\ dailyUsage \in [User -> Nat]
    /\ tokenSpend \in [Session -> Nat]
    /\ inherited \in [Session -> Nat]
    /\ turns \in [Turn -> TurnState]

Init ==
    /\ tickets = [k \in Ticket |-> Absent]
    /\ sessionUsage = [s \in Session |-> 0]
    /\ dailyUsage = [u \in User |-> 0]
    /\ tokenSpend = [s \in Session |-> 0]
    /\ inherited = [s \in Session |-> 0]
    /\ turns \in [Turn -> [pc : {"idle"}, session : Session, chat : Chats,
                           hard : Throttles, cancelled : {FALSE}, prior : {0},
                           ticket : {NoTicket}, granted : {0},
                           reduced : {FALSE}, charged : {0}, reported : {0}]]

-----------------------------------------------------------------------------
(* The ledger.                                                             *)

Monus(a, b) == IF a > b THEN a - b ELSE 0

SessionsOf(u) == {s \in Session : Owner[s] = u}

(* What the hard reservations of some sessions hold.                       *)
Holding(rows, sessions) ==
    [k \in Ticket |-> IF /\ rows[k].state = "active"
                         /\ rows[k].hard
                         /\ rows[k].session \in sessions
                      THEN rows[k].reserved ELSE 0]

Held(rows, sessions) == Total(Holding(rows, sessions), MaxTokens)

(* Every reservation deletes the expired ones first.                       *)
Swept ==
    [k \in Ticket |-> IF tickets[k].state = "active" /\ tickets[k].expired
                      THEN Absent
                      ELSE tickets[k]]

UsedMutant(s, prior) == sessionUsage[s] + prior
Used(s, prior) == IF prior > sessionUsage[s] THEN prior ELSE sessionUsage[s]

(* What each configured budget still admits.                               *)
RoomMutant(s, prior) ==
    {Monus(SessionBudget, Used(s, prior)),
     Monus(DailyBudget, dailyUsage[Owner[s]] + Held(Swept, SessionsOf(Owner[s])))}
RoomDailyMutant(s, prior) ==
    {Monus(SessionBudget, Used(s, prior) + Held(Swept, {s})),
     Monus(DailyBudget, dailyUsage[Owner[s]] + Held(Swept, {s}))}
Room(s, prior) ==
    (IF SessionBudget > 0
     THEN {Monus(SessionBudget, Used(s, prior) + Held(Swept, {s}))} ELSE {})
    \cup
    (IF DailyBudget > 0
     THEN {Monus(DailyBudget, dailyUsage[Owner[s]] + Held(Swept, SessionsOf(Owner[s])))}
     ELSE {})

(* _reserve_sync raises ChatBudgetExceeded and rolls everything back.      *)
Refused(t, prior) == turns[t].hard /\ 0 \in Room(turns[t].session, prior)

(* _reserve_sync grants n of the requested tokens.                         *)
GrantableMutant(t, requested, prior, n) == n = requested
Grantable(t, requested, prior, n) ==
    LET limits == {requested} \cup
                  (IF turns[t].hard THEN Room(turns[t].session, prior) ELSE {})
    IN  n \in limits /\ \A m \in limits : n <= m

(* uuid4: an id that no row and no turn knows.                             *)
Fresh(k) == tickets[k] = Absent /\ \A t \in Turn : turns[t].ticket # k

Reserve(t, k, requested, prior, n) ==
    /\ Fresh(k)
    /\ ~Refused(t, prior)
    /\ Grantable(t, requested, prior, n)
    /\ tickets' = [Swept EXCEPT ![k] =
                      [state |-> "active", turn |-> t, session |-> turns[t].session,
                       reserved |-> n, hard |-> turns[t].hard, expired |-> FALSE,
                       actual |-> 0, overrun |-> 0]]
    /\ sessionUsage' = [sessionUsage EXCEPT ![turns[t].session] =
                           Used(turns[t].session, prior)]
    /\ UNCHANGED <<dailyUsage, tokenSpend, inherited>>

OverrunMutant(k, actual) ==
    IF tickets[k].hard THEN actual - tickets[k].reserved ELSE 0
Overrun(k, actual) ==
    IF tickets[k].hard THEN Monus(actual, tickets[k].reserved) ELSE 0

(* _settle_sync charges a reservation once; a ticket that is no longer     *)
(* reserved changes nothing.                                               *)
SettleMutant(k, actual) ==
    /\ IF tickets[k].state = "active"
       THEN /\ sessionUsage' = [sessionUsage EXCEPT ![tickets[k].session] = @ + actual]
            /\ dailyUsage' = [dailyUsage EXCEPT ![Owner[tickets[k].session]] = @ + actual]
            /\ UNCHANGED tickets
       ELSE UNCHANGED ledger
    /\ UNCHANGED <<tokenSpend, inherited>>
Settle(k, actual) ==
    /\ IF tickets[k].state = "active"
       THEN /\ tickets' = [tickets EXCEPT ![k] =
                              [@ EXCEPT !.state = "settled", !.actual = actual,
                                        !.overrun = Overrun(k, actual)]]
            /\ sessionUsage' = [sessionUsage EXCEPT ![tickets[k].session] = @ + actual]
            /\ dailyUsage' = [dailyUsage EXCEPT ![Owner[tickets[k].session]] = @ + actual]
       ELSE UNCHANGED ledger
    /\ UNCHANGED <<tokenSpend, inherited>>

Settles(k, actual) == tickets[k].state = "active" /\ Overrun(k, actual) = 0

Release(k) ==
    /\ tickets' = IF tickets[k].state = "active"
                  THEN [tickets EXCEPT ![k] = Absent] ELSE tickets
    /\ UNCHANGED <<sessionUsage, dailyUsage, tokenSpend, inherited>>

-----------------------------------------------------------------------------
(* A turn's scope.                                                         *)

Goes(t, pc) == turns' = [turns EXCEPT ![t].pc = pc]

Takes(t, k, n, pc, reduced) ==
    turns' = [turns EXCEPT ![t] =
                 [@ EXCEPT !.pc = pc, !.ticket = k, !.granted = n,
                           !.reduced = reduced]]

Leaves(t, pc) ==
    turns' = [turns EXCEPT ![t] =
                 [@ EXCEPT !.pc = pc, !.ticket = NoTicket, !.granted = 0,
                           !.reduced = FALSE]]

(* A chat turn reads the spend saved with its session; a worker has none.  *)
Start(t) ==
    /\ turns[t].pc = "idle"
    /\ turns' = [turns EXCEPT ![t] =
          [@ EXCEPT !.pc = "starting",
                    !.prior = IF turns[t].chat THEN tokenSpend[turns[t].session] ELSE 0]]
    /\ UNCHANGED <<tickets, sessionUsage, dailyUsage, tokenSpend, inherited>>

(* preflight reserves one token and releases it.                           *)
Preflight(t, k) ==
    /\ turns[t].pc = "starting"
    /\ \E n \in 1 .. MaxTokens : /\ Reserve(t, k, 1, turns[t].prior, n)
                                 /\ Takes(t, k, n, "probing", FALSE)

PreflightRefused(t) ==
    /\ turns[t].pc = "starting"
    /\ Refused(t, turns[t].prior)
    /\ Goes(t, "ended")
    /\ UNCHANGED <<tickets, sessionUsage, dailyUsage, tokenSpend, inherited>>

PreflightReleases(t) ==
    /\ turns[t].pc = "probing"
    /\ Release(turns[t].ticket)
    /\ Leaves(t, IF turns[t].cancelled THEN "ended" ELSE "ready")

(* begin_attempt reserves the input bound and max_tokens.  A hard          *)
(* reservation that leaves no room for output is released again; one that  *)
(* leaves less than max_tokens lowers the output cap.  Input and output    *)
(* together are allowed what was reserved.                                 *)
Begin(t, k, request) ==
    /\ turns[t].pc = "ready"
    /\ ~turns[t].cancelled
    /\ \E n \in 1 .. MaxTokens :
         /\ Reserve(t, k, request[1] + request[2], 0, n)
         /\ Takes(t, k, n, IF turns[t].hard /\ n <= request[1] THEN "misfit" ELSE "calling",
                     n < request[1] + request[2])

BeginRefused(t) ==
    /\ turns[t].pc = "ready"
    /\ Refused(t, 0)
    /\ Goes(t, "ending")
    /\ UNCHANGED <<tickets, sessionUsage, dailyUsage, tokenSpend, inherited>>

MisfitReleases(t) ==
    /\ turns[t].pc = "misfit"
    /\ Release(turns[t].ticket)
    /\ Leaves(t, "ending")

(* A chat turn that is cancelled ends there; a worker reconciles first.     *)
Stops(t) == IF turns[t].chat THEN "ended" ELSE "ending"

(* Cancelled before the provider was called, or a provider that cannot be  *)
(* told the reduced cap: the reservation is released unused.               *)
AbortMutant(t) ==
    /\ turns[t].pc = "calling"
    /\ turns[t].cancelled \/ turns[t].reduced
    /\ Leaves(t, IF turns[t].cancelled THEN Stops(t) ELSE "ready")
    /\ UNCHANGED <<tickets, sessionUsage, dailyUsage, tokenSpend, inherited>>
Abort(t) ==
    /\ turns[t].pc = "calling"
    /\ turns[t].cancelled \/ turns[t].reduced
    /\ Release(turns[t].ticket)
    /\ Leaves(t, IF turns[t].cancelled THEN Stops(t) ELSE "ready")

(* The call is over, for whatever reason: finish_attempt charges what the  *)
(* client counted, or everything reserved when it counted nothing.  Only a *)
(* charge the ledger took is added to charged_tokens.                      *)
ChargedMutant(t, actual) == turns[t].charged + actual
Charged(t, actual) ==
    IF tickets[turns[t].ticket].state = "active" THEN turns[t].charged + actual
                                                 ELSE turns[t].charged

Finish(t, usage) ==
    LET k == turns[t].ticket
        actual == IF usage = 0 THEN turns[t].granted ELSE usage
    IN  /\ turns[t].pc = "calling"
        /\ usage <= turns[t].granted + MaxOverrun
        /\ turns[t].reported + usage <= MaxTokens
        /\ Settle(k, actual)
        /\ turns' = [turns EXCEPT ![t] =
              [@ EXCEPT !.pc = IF ~Settles(k, actual) THEN "ending"
                               ELSE IF turns[t].cancelled THEN Stops(t) ELSE "ready",
                        !.ticket = NoTicket, !.granted = 0, !.reduced = FALSE,
                        !.reported = turns[t].reported + usage,
                        !.charged = Charged(t, actual)]]

(* The turn's client counts tokens of a call that went past the scope.     *)
UnscopedCall(t, usage) ==
    /\ turns[t].pc = "ready"
    /\ turns[t].reported + usage <= MaxTokens
    /\ turns' = [turns EXCEPT ![t].reported = @ + usage]
    /\ UNCHANGED <<tickets, sessionUsage, dailyUsage, tokenSpend, inherited>>

EndTurn(t) ==
    /\ turns[t].pc = "ready"
    /\ Goes(t, IF turns[t].cancelled THEN Stops(t) ELSE "ending")
    /\ UNCHANGED <<tickets, sessionUsage, dailyUsage, tokenSpend, inherited>>

(* reconcile_unscoped_usage reserves and settles what is missing; when the *)
(* budget refuses the reservation it raises and nothing is charged.        *)
Missing(t) == Monus(turns[t].reported, turns[t].charged)

Done(t) == IF turns[t].chat THEN "syncing" ELSE "ended"

NothingMissing(t) ==
    /\ turns[t].pc = "ending"
    /\ Missing(t) = 0
    /\ Goes(t, Done(t))
    /\ UNCHANGED <<tickets, sessionUsage, dailyUsage, tokenSpend, inherited>>

Reconcile(t, k) ==
    /\ turns[t].pc = "ending"
    /\ Missing(t) > 0
    /\ \E n \in 1 .. MaxTokens : /\ Reserve(t, k, Missing(t), turns[t].prior, n)
                                 /\ Takes(t, k, n, "reconciling", FALSE)

ReconcileRefused(t) ==
    /\ turns[t].pc = "ending"
    /\ Missing(t) > 0
    /\ Refused(t, turns[t].prior)
    /\ Goes(t, "ended")
    /\ UNCHANGED <<tickets, sessionUsage, dailyUsage, tokenSpend, inherited>>

ReconcileSettles(t) ==
    /\ turns[t].pc = "reconciling"
    /\ Settle(turns[t].ticket, Missing(t))
    /\ turns' = [turns EXCEPT ![t] =
          [@ EXCEPT !.pc = IF Settles(turns[t].ticket, Missing(t)) THEN Done(t) ELSE "ended",
                    !.ticket = NoTicket, !.granted = 0, !.reduced = FALSE,
                    !.charged = Charged(t, Missing(t))]]

(* sync_chat_turn_budget saves the ledger's total with the session.        *)
Sync(t) ==
    /\ turns[t].pc = "syncing"
    /\ tokenSpend' = [tokenSpend EXCEPT ![turns[t].session] = sessionUsage[turns[t].session]]
    /\ Goes(t, "ended")
    /\ UNCHANGED <<tickets, sessionUsage, dailyUsage, inherited>>

(* What a chat turn saves besides: its messages, with the spend it read.    *)
(* A cancelled one salvages what it streamed when its scope is over.       *)
SaveTurn(t) ==
    /\ \/ turns[t].pc \in {"ready", "ending"}
       \/ turns[t].pc = "ended" /\ turns[t].cancelled
    /\ turns[t].chat
    /\ tokenSpend' = [tokenSpend EXCEPT ![turns[t].session] = turns[t].prior]
    /\ UNCHANGED <<tickets, sessionUsage, dailyUsage, inherited, turns>>

(* A branch is a copy of a session file under a new id: it takes over the   *)
(* token_spend of its source, while the ledger knows nothing of it yet.    *)
Branch(s, source) ==
    /\ \A t \in Turn : turns[t].session = s => turns[t].pc = "idle"
    /\ sessionUsage[s] = 0 /\ tokenSpend[s] = 0 /\ inherited[s] = 0
    /\ s # source
    /\ tokenSpend' = [tokenSpend EXCEPT ![s] = tokenSpend[source]]
    /\ inherited' = [inherited EXCEPT ![s] = tokenSpend[source]]
    /\ UNCHANGED <<tickets, sessionUsage, dailyUsage, turns>>

(* An announcement and a truncation save the session without its spend.    *)
Forget(s) ==
    /\ tokenSpend' = [tokenSpend EXCEPT ![s] = 0]
    /\ UNCHANGED <<tickets, sessionUsage, dailyUsage, inherited, turns>>

-----------------------------------------------------------------------------
(* Cancellation, time and failures.                                        *)

(* The shields let a reservation or a settlement that is under way finish; *)
(* its turn then goes on to release, settle or reconcile.                  *)
Cancel(t) ==
    /\ turns[t].pc \in {"starting", "probing", "ready", "calling"}
    /\ ~turns[t].cancelled
    /\ turns' = [turns EXCEPT ![t] =
          [@ EXCEPT !.cancelled = TRUE,
                    !.pc = IF turns[t].pc = "starting" THEN "ended" ELSE turns[t].pc]]
    /\ UNCHANGED <<tickets, sessionUsage, dailyUsage, tokenSpend, inherited>>

CancelledOut(t) ==
    turns' = [turns EXCEPT ![t] =
                 [@ EXCEPT !.pc = "ended", !.cancelled = TRUE, !.ticket = NoTicket,
                           !.granted = 0, !.reduced = FALSE]]

(* Cancelled while it waits for its reservation, which is released.        *)
CancelReconcile(t) ==
    /\ turns[t].pc = "reconciling"
    /\ Release(turns[t].ticket)
    /\ CancelledOut(t)

(* Cancelled while it settles: settle waits for the commit and raises the   *)
(* cancellation again, so the turn counts the charge only when an overrun  *)
(* is raised in its place.                                                 *)
CancelSettle(t) ==
    /\ turns[t].pc = "reconciling"
    /\ Settle(turns[t].ticket, Missing(t))
    /\ turns' = [turns EXCEPT ![t] =
          [@ EXCEPT !.pc = "ended", !.cancelled = TRUE, !.ticket = NoTicket,
                    !.granted = 0, !.reduced = FALSE,
                    !.charged = IF Settles(turns[t].ticket, Missing(t))
                                THEN turns[t].charged ELSE Charged(t, Missing(t))]]

(* The release itself has no shield: cancelled before its thread has       *)
(* started, preflight never releases its token.                            *)
LoseRelease(t) ==
    /\ "lost_release" \in Faults
    /\ turns[t].pc = "probing"
    /\ ~turns[t].cancelled
    /\ CancelledOut(t)
    /\ UNCHANGED <<tickets, sessionUsage, dailyUsage, tokenSpend, inherited>>

(* The database stays locked: a settlement fails and its reservation stays. *)
SettleFails(t, usage) ==
    /\ "ledger_error" \in Faults
    /\ turns[t].pc = "calling"
    /\ usage <= turns[t].granted
    /\ turns[t].reported + usage <= MaxTokens
    /\ turns' = [turns EXCEPT ![t] =
          [@ EXCEPT !.pc = "ending",
                    !.ticket = NoTicket, !.granted = 0, !.reduced = FALSE,
                    !.reported = turns[t].reported + usage]]
    /\ UNCHANGED <<tickets, sessionUsage, dailyUsage, tokenSpend, inherited>>

Crash(t) ==
    /\ "crash" \in Faults
    /\ turns[t].pc \notin {"idle", "ended", "crashed"}
    /\ Goes(t, "crashed")
    /\ UNCHANGED <<tickets, sessionUsage, dailyUsage, tokenSpend, inherited>>

(* _LEASE_SECONDS have passed since the reservation.                       *)
Expire(k) ==
    /\ tickets[k].state = "active"
    /\ ~tickets[k].expired
    /\ tickets' = [tickets EXCEPT ![k].expired = TRUE]
    /\ UNCHANGED <<sessionUsage, dailyUsage, tokenSpend, inherited, turns>>

(* _today() is another day, which has no daily_usage rows yet.             *)
Midnight ==
    /\ dailyUsage' = [u \in User |-> 0]
    /\ UNCHANGED <<tickets, sessionUsage, tokenSpend, inherited, turns>>

-----------------------------------------------------------------------------
Attempt(t) ==
    \/ \E k \in Ticket, request \in Requests : Begin(t, k, request)
    \/ BeginRefused(t)
    \/ MisfitReleases(t)
    \/ Abort(t)
    \/ \E usage \in Usages : Finish(t, usage)

Ending(t) ==
    \/ EndTurn(t)
    \/ NothingMissing(t)
    \/ \E k \in Ticket : Reconcile(t, k)
    \/ ReconcileRefused(t)
    \/ ReconcileSettles(t)
    \/ Sync(t)
    \/ SaveTurn(t)

Opening(t) ==
    \/ Start(t)
    \/ \E k \in Ticket : Preflight(t, k)
    \/ PreflightRefused(t)
    \/ PreflightReleases(t)

Failure(t) ==
    \/ Cancel(t)
    \/ CancelReconcile(t)
    \/ CancelSettle(t)
    \/ LoseRelease(t)
    \/ \E usage \in Usages : SettleFails(t, usage)
    \/ Crash(t)

Next ==
    \/ \E t \in Turn :
         \/ Opening(t)
         \/ Attempt(t)
         \/ \E usage \in Usages \ {0} : UnscopedCall(t, usage)
         \/ Ending(t)
         \/ Failure(t)
    \/ \E s, source \in Session : Branch(s, source)
    \/ \E s \in Session : Forget(s)
    \/ \E k \in Ticket : Expire(k)
    \/ Midnight

Spec == Init /\ [][Next]_vars

-----------------------------------------------------------------------------
(* Properties.                                                             *)

(* A charge beyond its reservation was booked in one of these sessions.    *)
Overran(sessions) ==
    \E k \in Ticket : /\ tickets[k].state = "settled"
                      /\ tickets[k].session \in sessions
                      /\ tickets[k].overrun > 0

(* A session's budget, seen as an account.                                 *)
SessionAccount(s) ==
    INSTANCE BudgetAccount WITH Grant <- Ticket, Limit <- SessionBudget,
        spent <- sessionUsage[s], inherited <- inherited[s],
        held <- Holding(tickets, {s}),
        overdrawn <- Overran({s})

(* A user's budget of the day, seen as an account that midnight reopens.   *)
DailyAccount(u) ==
    INSTANCE BudgetAccount WITH Grant <- Ticket, Limit <- DailyBudget,
        spent <- dailyUsage[u], inherited <- 0, held <- Holding(tickets, SessionsOf(u)),
        overdrawn <- Overran(SessionsOf(u))

(* The ledger keeps every session's and every user's account: with         *)
(* throttling on, any interleaving of turns, expiries and crashes admits   *)
(* only what is neither spent nor held.                                    *)
SessionAccountKept ==
    /\ \A s \in Session : SessionAccount(s)!Init
    /\ [][\A s \in Session : SessionAccount(s)!Step]_vars

DailyAccountKept ==
    /\ \A u \in User : DailyAccount(u)!Init
    /\ [][\A u \in User : DailyAccount(u)!Step]_vars

(* Hence spent and held tokens stay within both budgets, until a charge    *)
(* has exceeded its reservation.                                           *)
WithinSessionBudget ==
    \A s \in Session :
        Overran({s}) \/ sessionUsage[s] + Held(tickets, {s}) <= SessionBudget

WithinDailyBudget ==
    \A u \in User :
        \/ Overran(SessionsOf(u))
        \/ dailyUsage[u] + Held(tickets, SessionsOf(u)) <= DailyBudget

(* What the settlements say one session, or one turn, was charged.         *)
SettledIn(s) == [k \in Ticket |->
    IF tickets[k].state = "settled" /\ tickets[k].session = s
    THEN tickets[k].actual ELSE 0]

SettledBy(t) == [k \in Ticket |->
    IF tickets[k].state = "settled" /\ tickets[k].turn = t
    THEN tickets[k].actual ELSE 0]

(* Every token a session has used stands in exactly one settlement, whoever *)
(* settled, released or lost which ticket, but for the spend a branch      *)
(* inherited: its first reservation raises session_usage to that, and no   *)
(* prior total of a turn raises it any further.                            *)
LedgerBalances ==
    \A s \in Session :
        LET settled == Total(SettledIn(s), MaxTokens)
        IN  settled <= sessionUsage[s] /\ sessionUsage[s] <= settled + inherited[s]

(* What a turn believes it was charged is what the ledger charged it: the  *)
(* reconciliation at its end can charge nothing twice.  Only a turn that   *)
(* was cancelled and is over may have missed a charge.                     *)
ChargedAsSettled ==
    \A t \in Turn :
        LET settled == Total(SettledBy(t), MaxTokens)
        IN  /\ turns[t].charged <= settled
            /\ turns[t].charged = settled \/ (turns[t].pc = "ended" /\ turns[t].cancelled)

(* No reservation outlives the turn that made it: refusals, misfits,       *)
(* cancellations and aborted attempts all give their tokens back, and only *)
(* a crash leaves them to their lease.                                     *)
Holder(t) == turns[t].pc \in {"probing", "misfit", "calling", "reconciling", "crashed"}

NoStrandedHold ==
    \A k \in Ticket : tickets[k].state = "active"
                        => \E t \in Turn : turns[t].ticket = k /\ Holder(t)
=============================================================================

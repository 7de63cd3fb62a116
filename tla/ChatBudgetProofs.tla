-------------------------- MODULE ChatBudgetProofs --------------------------
(***************************************************************************)
(* What holds of ChatBudget for every set of sessions, turns and tickets,  *)
(* every budget and every usage.                                           *)
(***************************************************************************)
EXTENDS ChatBudget, TokenSumProofs

Rows == [Ticket -> TicketRow \cup {Absent}]

-----------------------------------------------------------------------------
(* Types: the rows of the ledger.                                          *)

LEMMA MonusType == \A a, b \in Nat : Monus(a, b) \in Nat /\ Monus(a, b) <= a
  BY DEF Monus

LEMMA Bounds ==
    /\ MaxTokens \in Nat \ {0}
    /\ 0 \in 0 .. MaxTokens
    /\ \A n \in 1 .. MaxTokens : n \in 0 .. MaxTokens /\ n \in Nat \ {0}
    /\ \A n \in 0 .. MaxTokens : n \in Nat
  BY BudgetAssumption

LEMMA ActiveRow ==
    ASSUME NEW rows \in Rows, NEW k \in Ticket, rows[k].state = "active"
    PROVE  rows[k] \in TicketRow
  BY DEF Rows, Absent

LEMMA SweptType == TypeOK => Swept \in Rows
  BY DEF TypeOK, Swept, Rows

LEMMA HoldingType ==
    ASSUME NEW rows \in Rows, NEW sessions
    PROVE  Holding(rows, sessions) \in [Ticket -> 0 .. MaxTokens]
  <1>1. ASSUME NEW k \in Ticket, rows[k].state = "active"
        PROVE  rows[k].reserved \in 0 .. MaxTokens
    BY <1>1, ActiveRow DEF TicketRow
  <1>2. 0 \in 0 .. MaxTokens
    BY BudgetAssumption
  <1> QED
    BY <1>1, <1>2 DEF Holding

LEMMA HeldType ==
    ASSUME NEW rows \in Rows, NEW sessions
    PROVE  Held(rows, sessions) \in Nat
  BY HoldingType, TokensFinite, BudgetAssumption DEF Held

LEMMA UsedType ==
    ASSUME TypeOK, NEW s \in Session, NEW prior \in Nat
    PROVE  /\ Used(s, prior) \in Nat
           /\ prior <= sessionUsage[s] => Used(s, prior) = sessionUsage[s]
  BY DEF TypeOK, Used

(* The four transactions keep the tables typed.                            *)
LEMMA ReserveType ==
    ASSUME TypeOK, NEW t \in Turn, NEW k \in Ticket, NEW requested,
           NEW prior \in Nat, NEW n \in 1 .. MaxTokens,
           Reserve(t, k, requested, prior, n)
    PROVE  /\ tickets' \in [Ticket -> TicketRow \cup {Absent}]
           /\ sessionUsage' \in [Session -> Nat]
           /\ UNCHANGED <<dailyUsage, tokenSpend, inherited>>
  <1>1. turns[t].session \in Session /\ turns[t].hard \in BOOLEAN
    BY DEF TypeOK, TurnState
  <1>2. [state |-> "active", turn |-> t, session |-> turns[t].session,
         reserved |-> n, hard |-> turns[t].hard, expired |-> FALSE,
         actual |-> 0, overrun |-> 0] \in TicketRow
    BY <1>1, BudgetAssumption DEF TicketRow
  <1>3. tickets' \in [Ticket -> TicketRow \cup {Absent}]
    BY <1>2, SweptType DEF Reserve, Rows
  <1>4. sessionUsage' \in [Session -> Nat]
    BY <1>1, UsedType DEF Reserve, TypeOK
  <1> QED
    BY <1>3, <1>4 DEF Reserve

LEMMA SettleType ==
    ASSUME TypeOK, NEW k \in Ticket, NEW actual \in 0 .. MaxTokens,
           Settle(k, actual)
    PROVE  /\ tickets' \in [Ticket -> TicketRow \cup {Absent}]
           /\ sessionUsage' \in [Session -> Nat]
           /\ dailyUsage' \in [User -> Nat]
           /\ UNCHANGED <<tokenSpend, inherited>>
  <1> USE DEF TypeOK, Settle
  <1>1. CASE tickets[k].state # "active"
    BY <1>1 DEF ledger
  <1>2. CASE tickets[k].state = "active"
    <2>1. tickets[k] \in TicketRow
      BY <1>2, ActiveRow DEF Rows
    <2>2. actual \in Nat /\ tickets[k].reserved \in Nat /\ tickets[k].hard \in BOOLEAN
      BY <2>1, BudgetAssumption DEF TicketRow
    <2>3. Overrun(k, actual) \in 0 .. MaxTokens
      BY <2>2, MonusType, BudgetAssumption DEF Overrun
    <2>4. [tickets[k] EXCEPT !.state = "settled", !.actual = actual,
                             !.overrun = Overrun(k, actual)] \in TicketRow
      BY <2>1, <2>3 DEF TicketRow
    <2>5. tickets[k].session \in Session /\ Owner[tickets[k].session] \in User
      BY <2>1, BudgetAssumption DEF TicketRow
    <2>6. tickets' \in [Ticket -> TicketRow \cup {Absent}]
      BY <1>2, <2>4
    <2>7. sessionUsage' \in [Session -> Nat]
      BY <1>2, <2>2, <2>5
    <2>8. dailyUsage' \in [User -> Nat]
      BY <1>2, <2>2, <2>5
    <2> QED
      BY <2>6, <2>7, <2>8
  <1> QED
    BY <1>1, <1>2

LEMMA ReleaseType ==
    ASSUME TypeOK, NEW k \in Ticket, Release(k)
    PROVE  /\ tickets' \in [Ticket -> TicketRow \cup {Absent}]
           /\ UNCHANGED <<sessionUsage, dailyUsage, tokenSpend, inherited>>
  BY DEF TypeOK, Release

(* Types: the turns.                                                       *)
LEMMA UpdateType ==
    ASSUME TypeOK, NEW t \in Turn, NEW turn \in TurnState,
           turns' = [turns EXCEPT ![t] = turn]
    PROVE  turns' \in [Turn -> TurnState]
  BY DEF TypeOK

(* What a scope makes of its turn is a turn.                               *)
LEMMA TurnTypes ==
    ASSUME NEW turn \in TurnState, NEW pc \in Place, NEW k \in Ticket,
           NEW n \in 1 .. MaxTokens, NEW b \in BOOLEAN
    PROVE  /\ [turn EXCEPT !.pc = pc] \in TurnState
           /\ [turn EXCEPT !.pc = pc, !.ticket = k, !.granted = n,
                           !.reduced = b] \in TurnState
           /\ [turn EXCEPT !.pc = pc, !.ticket = NoTicket, !.granted = 0,
                           !.reduced = FALSE] \in TurnState
  BY Bounds DEF TurnState

LEMMA GoesType ==
    ASSUME TypeOK, NEW t \in Turn, NEW pc \in Place, Goes(t, pc)
    PROVE  turns' \in [Turn -> TurnState]
  <1>1. turns[t] \in TurnState
    BY DEF TypeOK
  <1>2. turns' = [turns EXCEPT ![t] = [turns[t] EXCEPT !.pc = pc]]
    BY DEF Goes
  <1>3. \A r \in TurnState : [r EXCEPT !.pc = pc] \in TurnState
    BY Bounds DEF TurnState
  <1> QED
    BY <1>1, <1>2, <1>3, UpdateType

LEMMA TakesType ==
    ASSUME TypeOK, NEW t \in Turn, NEW k \in Ticket, NEW n \in 1 .. MaxTokens,
           NEW pc \in Place, NEW reduced \in BOOLEAN, Takes(t, k, n, pc, reduced)
    PROVE  turns' \in [Turn -> TurnState]
  <1>1. turns[t] \in TurnState
    BY DEF TypeOK
  <1>2. [turns[t] EXCEPT !.pc = pc, !.ticket = k, !.granted = n,
                         !.reduced = reduced] \in TurnState
    BY <1>1, TurnTypes
  <1> QED
    BY <1>2, UpdateType DEF Takes

LEMMA LeavesType ==
    ASSUME TypeOK, NEW t \in Turn, NEW pc \in Place, Leaves(t, pc)
    PROVE  turns' \in [Turn -> TurnState]
  <1>1. turns[t] \in TurnState
    BY DEF TypeOK
  <1>2. \A r \in TurnState :
            [r EXCEPT !.pc = pc, !.ticket = NoTicket, !.granted = 0,
                      !.reduced = FALSE] \in TurnState
    BY Bounds DEF TurnState
  <1> QED
    BY <1>1, <1>2, UpdateType DEF Leaves

LEMMA MissingType ==
    ASSUME TypeOK, NEW t \in Turn
    PROVE  Missing(t) \in 0 .. MaxTokens
  <1>1. turns[t] \in TurnState
    BY DEF TypeOK
  <1>2. turns[t].reported \in 0 .. MaxTokens /\ turns[t].charged \in Nat
    BY <1>1 DEF TurnState
  <1> QED
    BY <1>2, Bounds DEF Missing, Monus

LEMMA ChargedType ==
    ASSUME TypeOK, NEW t \in Turn, NEW actual \in 0 .. MaxTokens
    PROVE  Charged(t, actual) \in Nat
  <1>1. turns[t].charged \in Nat
    BY DEF TypeOK, TurnState
  <1> QED
    BY <1>1, BudgetAssumption DEF Charged

(* What finish_attempt and reconcile make of their turn is a turn.         *)
LEMMA SettledTurnType ==
    ASSUME NEW turn \in TurnState, NEW pc \in Place, NEW charged \in Nat,
           NEW reported \in 0 .. MaxTokens
    PROVE  /\ [turn EXCEPT !.pc = pc, !.ticket = NoTicket, !.granted = 0,
                           !.reduced = FALSE, !.reported = reported,
                           !.charged = charged] \in TurnState
           /\ [turn EXCEPT !.pc = pc, !.ticket = NoTicket, !.granted = 0,
                           !.reduced = FALSE, !.charged = charged] \in TurnState
           /\ [turn EXCEPT !.pc = pc, !.ticket = NoTicket, !.granted = 0,
                           !.reduced = FALSE, !.reported = reported] \in TurnState
           /\ [turn EXCEPT !.pc = pc, !.cancelled = TRUE, !.ticket = NoTicket,
                           !.granted = 0, !.reduced = FALSE] \in TurnState
  BY Bounds DEF TurnState

LEMMA CancelledTurnType ==
    ASSUME NEW turn \in TurnState, NEW charged \in Nat
    PROVE  [turn EXCEPT !.pc = "ended", !.cancelled = TRUE, !.ticket = NoTicket,
                        !.granted = 0, !.reduced = FALSE, !.charged = charged]
               \in TurnState
  BY Bounds DEF TurnState, Place

LEMMA SmallTurnType ==
    ASSUME NEW turn \in TurnState, NEW pc \in Place, NEW prior \in Nat,
           NEW reported \in 0 .. MaxTokens
    PROVE  /\ [turn EXCEPT !.pc = pc, !.prior = prior] \in TurnState
           /\ [turn EXCEPT !.reported = reported] \in TurnState
           /\ [turn EXCEPT !.cancelled = TRUE,
                           !.pc = IF turn.pc = "starting" THEN "ended" ELSE turn.pc]
                  \in TurnState
  BY DEF TurnState, Place

(* In these places a turn works on a ticket of its own.                    *)
HasTicket(t) == turns[t].pc \in {"probing", "misfit", "calling", "reconciling"}

HoldsTicket == \A t \in Turn : HasTicket(t) => turns[t].ticket \in Ticket

-----------------------------------------------------------------------------
(* Every action keeps the tables and the scopes typed.                     *)
LEMMA TypeStep ==
    ASSUME TypeOK, HoldsTicket, [Next]_vars
    PROVE  TypeOK'
  <1> USE DEF Place
  <1>a. ASSUME tickets' \in [Ticket -> TicketRow \cup {Absent}],
               sessionUsage' \in [Session -> Nat], dailyUsage' \in [User -> Nat],
               tokenSpend' \in [Session -> Nat], inherited' \in [Session -> Nat],
               turns' \in [Turn -> TurnState]
        PROVE  TypeOK'
    BY <1>a DEF TypeOK
  <1>b. /\ tickets \in [Ticket -> TicketRow \cup {Absent}]
        /\ sessionUsage \in [Session -> Nat] /\ dailyUsage \in [User -> Nat]
        /\ tokenSpend \in [Session -> Nat] /\ inherited \in [Session -> Nat]
        /\ turns \in [Turn -> TurnState]
    BY DEF TypeOK
  <1>c. \A t \in Turn : /\ turns[t] \in TurnState
                        /\ turns[t].prior \in Nat
                        /\ turns[t].session \in Session
                        /\ turns[t].granted \in 0 .. MaxTokens
                        /\ turns[t].reported \in 0 .. MaxTokens
                        /\ turns[t].pc \in Place
    BY <1>b DEF TurnState
  <1>d. \A t \in Turn : HasTicket(t) => turns[t].ticket \in Ticket
    BY DEF HoldsTicket
  <1>e. Usages \subseteq 0 .. MaxTokens
    BY BudgetAssumption
  <1>1. ASSUME NEW t \in Turn, Start(t)
        PROVE  TypeOK'
    <2>1. (IF turns[t].chat THEN tokenSpend[turns[t].session] ELSE 0) \in Nat
      BY <1>b, <1>c
    <2>2. turns' \in [Turn -> TurnState]
      BY <1>1, <1>c, <2>1, SmallTurnType, UpdateType DEF Start
    <2> QED
      BY <1>1, <1>a, <1>b, <2>2 DEF Start
  <1>2. ASSUME NEW t \in Turn, NEW k \in Ticket, Preflight(t, k)
        PROVE  TypeOK'
    <2>1. PICK n \in 1 .. MaxTokens : /\ Reserve(t, k, 1, turns[t].prior, n)
                                      /\ Takes(t, k, n, "probing", FALSE)
      BY <1>2 DEF Preflight
    <2> QED
      BY <2>1, <1>a, <1>b, <1>c, ReserveType, TakesType
  <1>3. ASSUME NEW t \in Turn, PreflightRefused(t)
        PROVE  TypeOK'
    BY <1>3, <1>a, <1>b, GoesType DEF PreflightRefused
  <1>4. ASSUME NEW t \in Turn, PreflightReleases(t)
        PROVE  TypeOK'
    <2>1. turns[t].ticket \in Ticket
      BY <1>4, <1>d DEF PreflightReleases, HasTicket
    <2> QED
      BY <1>4, <2>1, <1>a, <1>b, ReleaseType, LeavesType DEF PreflightReleases
  <1>5. ASSUME NEW t \in Turn, NEW k \in Ticket, NEW request \in Requests,
               Begin(t, k, request)
        PROVE  TypeOK'
    <2> DEFINE pc(n) == IF turns[t].hard /\ n <= request[1] THEN "misfit" ELSE "calling"
    <2>1. PICK n \in 1 .. MaxTokens :
              /\ Reserve(t, k, request[1] + request[2], 0, n)
              /\ Takes(t, k, n, pc(n), n < request[1] + request[2])
      BY <1>5 DEF Begin
    <2>2. pc(n) \in Place /\ (n < request[1] + request[2]) \in BOOLEAN
      OBVIOUS
    <2> HIDE DEF pc
    <2>3. turns' \in [Turn -> TurnState]
      BY <2>1, <2>2, TakesType
    <2>4. /\ tickets' \in [Ticket -> TicketRow \cup {Absent}]
          /\ sessionUsage' \in [Session -> Nat]
          /\ UNCHANGED <<dailyUsage, tokenSpend, inherited>>
      BY <2>1, ReserveType
    <2> QED
      BY <2>3, <2>4, <1>a, <1>b
  <1>6. ASSUME NEW t \in Turn, BeginRefused(t)
        PROVE  TypeOK'
    BY <1>6, <1>a, <1>b, GoesType DEF BeginRefused
  <1>7. ASSUME NEW t \in Turn, MisfitReleases(t)
        PROVE  TypeOK'
    <2>1. turns[t].ticket \in Ticket
      BY <1>7, <1>d DEF MisfitReleases, HasTicket
    <2> QED
      BY <1>7, <2>1, <1>a, <1>b, ReleaseType, LeavesType DEF MisfitReleases
  <1>8. ASSUME NEW t \in Turn, Abort(t)
        PROVE  TypeOK'
    <2>1. turns[t].ticket \in Ticket
      BY <1>8, <1>d DEF Abort, HasTicket
    <2> QED
      BY <1>8, <2>1, <1>a, <1>b, ReleaseType, LeavesType DEF Abort, Stops
  <1>9. ASSUME NEW t \in Turn, NEW usage \in Usages, Finish(t, usage)
        PROVE  TypeOK'
    <2> DEFINE k == turns[t].ticket
               actual == IF usage = 0 THEN turns[t].granted ELSE usage
    <2>1. k \in Ticket /\ actual \in 0 .. MaxTokens
      BY <1>9, <1>c, <1>d, <1>e DEF Finish, HasTicket
    <2>2. turns[t].reported + usage \in 0 .. MaxTokens
      BY <1>9, <1>c, <1>e, Bounds DEF Finish
    <2>3. Charged(t, actual) \in Nat
      BY <2>1, ChargedType
    <2> DEFINE pc == IF ~Settles(k, actual) THEN "ending"
                     ELSE IF turns[t].cancelled THEN Stops(t) ELSE "ready"
    <2>4. pc \in Place
      BY DEF Stops
    <2>5. /\ Settle(k, actual)
          /\ turns' = [turns EXCEPT ![t] =
                [@ EXCEPT !.pc = pc, !.ticket = NoTicket, !.granted = 0,
                          !.reduced = FALSE, !.reported = turns[t].reported + usage,
                          !.charged = Charged(t, actual)]]
      BY <1>9 DEF Finish
    <2> HIDE DEF k, actual, pc
    <2>6. [turns[t] EXCEPT !.pc = pc, !.ticket = NoTicket, !.granted = 0,
                           !.reduced = FALSE, !.reported = turns[t].reported + usage,
                           !.charged = Charged(t, actual)] \in TurnState
      BY <1>c, <2>2, <2>3, <2>4, SettledTurnType, ZenonT(30)
    <2>7. turns' \in [Turn -> TurnState]
      BY <2>5, <2>6, UpdateType
    <2> QED
      BY <2>1, <2>5, <2>7, <1>a, <1>b, SettleType
  <1>10. ASSUME NEW t \in Turn, NEW usage \in Usages, UnscopedCall(t, usage)
         PROVE  TypeOK'
    <2>1. turns[t].reported + usage \in 0 .. MaxTokens
      BY <1>10, <1>c, <1>e, Bounds DEF UnscopedCall
    <2>2. turns' = [turns EXCEPT ![t] =
                       [turns[t] EXCEPT !.reported = turns[t].reported + usage]]
      BY <1>10, <1>b DEF UnscopedCall
    <2>3. turns' \in [Turn -> TurnState]
      BY <1>c, <2>1, <2>2, SmallTurnType, UpdateType
    <2> QED
      BY <1>10, <2>3, <1>a, <1>b DEF UnscopedCall
  <1>11. ASSUME NEW t \in Turn, EndTurn(t) \/ NothingMissing(t) \/ ReconcileRefused(t)
         PROVE  TypeOK'
    BY <1>11, <1>a, <1>b, GoesType
       DEF EndTurn, NothingMissing, ReconcileRefused, Done, Stops
  <1>12. ASSUME NEW t \in Turn, NEW k \in Ticket, Reconcile(t, k)
         PROVE  TypeOK'
    <2>1. PICK n \in 1 .. MaxTokens : /\ Reserve(t, k, Missing(t), turns[t].prior, n)
                                      /\ Takes(t, k, n, "reconciling", FALSE)
      BY <1>12 DEF Reconcile
    <2> QED
      BY <2>1, <1>a, <1>b, <1>c, ReserveType, TakesType
  <1>13. ASSUME NEW t \in Turn, ReconcileSettles(t)
         PROVE  TypeOK'
    <2>1. turns[t].ticket \in Ticket /\ Missing(t) \in 0 .. MaxTokens
      BY <1>13, <1>d, MissingType DEF ReconcileSettles, HasTicket
    <2> DEFINE pc == IF Settles(turns[t].ticket, Missing(t)) THEN Done(t) ELSE "ended"
    <2>2. pc \in Place
      BY DEF Done
    <2>3. /\ Settle(turns[t].ticket, Missing(t))
          /\ turns' = [turns EXCEPT ![t] =
                [turns[t] EXCEPT !.pc = pc, !.ticket = NoTicket, !.granted = 0,
                          !.reduced = FALSE, !.charged = Charged(t, Missing(t))]]
      BY <1>13, <1>b DEF ReconcileSettles
    <2> HIDE DEF pc
    <2>4. Charged(t, Missing(t)) \in Nat
      BY <2>1, ChargedType
    <2>5. [turns[t] EXCEPT !.pc = pc, !.ticket = NoTicket, !.granted = 0,
                           !.reduced = FALSE, !.charged = Charged(t, Missing(t))]
              \in TurnState
      BY <1>c, <2>2, <2>4, SettledTurnType
    <2>6. turns' \in [Turn -> TurnState]
      BY <2>3, <2>5, UpdateType
    <2> QED
      BY <2>1, <2>3, <2>6, <1>a, <1>b, SettleType
  <1>14. ASSUME NEW t \in Turn, Sync(t)
         PROVE  TypeOK'
    <2>1. tokenSpend' \in [Session -> Nat]
      BY <1>14, <1>b, <1>c DEF Sync
    <2> QED
      BY <1>14, <2>1, <1>a, <1>b, GoesType DEF Sync
  <1>15. ASSUME NEW t \in Turn, Cancel(t)
         PROVE  TypeOK'
    <2>1. [turns[t] EXCEPT !.cancelled = TRUE,
                           !.pc = IF turns[t].pc = "starting" THEN "ended" ELSE turns[t].pc]
              \in TurnState
      BY <1>c, SmallTurnType
    <2>2. turns' \in [Turn -> TurnState]
      BY <1>15, <2>1, UpdateType DEF Cancel
    <2> QED
      BY <1>15, <2>2, <1>a, <1>b DEF Cancel
  <1>16. ASSUME NEW t \in Turn, CancelReconcile(t)
         PROVE  TypeOK'
    <2>1. turns[t].ticket \in Ticket
      BY <1>16, <1>d DEF CancelReconcile, HasTicket
    <2>2. turns' \in [Turn -> TurnState]
      BY <1>16, <1>c, SettledTurnType, UpdateType, Bounds DEF CancelReconcile, CancelledOut
    <2> QED
      BY <1>16, <2>1, <2>2, <1>a, <1>b, ReleaseType DEF CancelReconcile
  <1>17. ASSUME NEW t \in Turn, LoseRelease(t)
         PROVE  TypeOK'
    <2>1. turns' \in [Turn -> TurnState]
      BY <1>17, <1>c, SettledTurnType, UpdateType, Bounds DEF LoseRelease, CancelledOut
    <2> QED
      BY <1>17, <2>1, <1>a, <1>b DEF LoseRelease
  <1>18. ASSUME NEW t \in Turn, NEW usage \in Usages, SettleFails(t, usage)
         PROVE  TypeOK'
    <2>1. turns[t].reported + usage \in 0 .. MaxTokens
      BY <1>18, <1>c, <1>e, Bounds DEF SettleFails
    <2>2. [turns[t] EXCEPT !.pc = "ending", !.ticket = NoTicket, !.granted = 0,
                           !.reduced = FALSE, !.reported = turns[t].reported + usage]
              \in TurnState
      BY <1>c, <2>1, SettledTurnType
    <2>3. turns' \in [Turn -> TurnState]
      BY <1>18, <2>2, UpdateType DEF SettleFails
    <2> QED
      BY <1>18, <2>3, <1>a, <1>b DEF SettleFails
  <1>19. ASSUME NEW t \in Turn, Crash(t)
         PROVE  TypeOK'
    BY <1>19, <1>a, <1>b, GoesType DEF Crash
  <1>20. ASSUME NEW k \in Ticket, Expire(k)
         PROVE  TypeOK'
    <2>1. tickets[k] \in TicketRow
      BY <1>20, <1>b, ActiveRow DEF Expire, Rows
    <2>2. [tickets[k] EXCEPT !.expired = TRUE] \in TicketRow
      BY <2>1 DEF TicketRow
    <2>3. tickets' \in [Ticket -> TicketRow \cup {Absent}]
      BY <1>20, <1>b, <2>2 DEF Expire
    <2> QED
      BY <1>20, <2>3, <1>a, <1>b DEF Expire
  <1>21. ASSUME Midnight
         PROVE  TypeOK'
    BY <1>21, <1>a, <1>b DEF Midnight
  <1>22. ASSUME NEW t \in Turn, CancelSettle(t)
         PROVE  TypeOK'
    <2>1. turns[t].ticket \in Ticket /\ Missing(t) \in 0 .. MaxTokens
      BY <1>22, <1>d, MissingType DEF CancelSettle, HasTicket
    <2> DEFINE charged == IF Settles(turns[t].ticket, Missing(t))
                          THEN turns[t].charged ELSE Charged(t, Missing(t))
    <2>2. charged \in Nat
      BY <1>c, <2>1, ChargedType DEF TurnState
    <2>3. /\ Settle(turns[t].ticket, Missing(t))
          /\ turns' = [turns EXCEPT ![t] =
                [turns[t] EXCEPT !.pc = "ended", !.cancelled = TRUE, !.ticket = NoTicket,
                          !.granted = 0, !.reduced = FALSE, !.charged = charged]]
      BY <1>22, <1>b DEF CancelSettle
    <2> HIDE DEF charged
    <2>4. [turns[t] EXCEPT !.pc = "ended", !.cancelled = TRUE, !.ticket = NoTicket,
                           !.granted = 0, !.reduced = FALSE, !.charged = charged]
              \in TurnState
      BY <1>c, <2>2, CancelledTurnType
    <2>5. turns' \in [Turn -> TurnState]
      BY <2>3, <2>4, UpdateType
    <2> QED
      BY <2>1, <2>3, <2>5, <1>a, <1>b, SettleType
  <1>23. ASSUME NEW t \in Turn, SaveTurn(t)
         PROVE  TypeOK'
    BY <1>23, <1>a, <1>b, <1>c DEF SaveTurn
  <1>24. ASSUME NEW s \in Session, NEW source \in Session, Branch(s, source)
         PROVE  TypeOK'
    BY <1>24, <1>a, <1>b DEF Branch
  <1>25. ASSUME NEW s \in Session, Forget(s)
         PROVE  TypeOK'
    BY <1>25, <1>a, <1>b DEF Forget
  <1>26. ASSUME UNCHANGED vars
         PROVE  TypeOK'
    BY <1>26, <1>a, <1>b DEF vars
  <1> QED
    BY <1>1, <1>2, <1>3, <1>4, <1>5, <1>6, <1>7, <1>8, <1>9, <1>10, <1>11, <1>12,
       <1>13, <1>14, <1>15, <1>16, <1>17, <1>18, <1>19, <1>20, <1>21, <1>22,
       <1>23, <1>24, <1>25, <1>26
       DEF Next, Opening, Attempt, Ending, Failure

-----------------------------------------------------------------------------
(* The shapes of a step: what a turn may do to its ticket and the ledger.  *)

Moves(t) ==
    /\ \A x \in Turn \ {t} : turns'[x] = turns[x]
    /\ turns'[t].session = turns[t].session
    /\ turns'[t].hard = turns[t].hard

(* No transaction: the turn keeps its ticket, if it has one.               *)
Quiet(t) ==
    /\ UNCHANGED <<tickets, sessionUsage, dailyUsage, inherited>>
    /\ tokenSpend' \in {tokenSpend,
          [tokenSpend EXCEPT ![turns[t].session] = sessionUsage[turns[t].session]],
          [tokenSpend EXCEPT ![turns[t].session] = turns[t].prior]}
    /\ Moves(t)
    /\ turns[t].pc # "ended" \/ UNCHANGED turns
    /\ turns'[t].prior \in {turns[t].prior, 0, tokenSpend[turns[t].session]}
    /\ turns'[t].charged = turns[t].charged
    /\ turns'[t].ticket = turns[t].ticket
    /\ Holder(t) => Holder(t)'
    /\ HasTicket(t)' => HasTicket(t)

(* The turn reserves with a fresh ticket.                                  *)
TakesHold(t) ==
    /\ ~Holder(t) /\ turns[t].pc # "ended"
    /\ \E k \in Ticket, n \in 1 .. MaxTokens, prior \in {0, turns[t].prior},
          requested \in 1 .. MaxTokens :
         /\ Reserve(t, k, requested, prior, n)
         /\ turns'[t].ticket = k
    /\ Moves(t)
    /\ turns'[t].prior = turns[t].prior
    /\ turns'[t].charged = turns[t].charged
    /\ HasTicket(t)'

(* The turn is rid of its ticket.                                          *)
Parts(t) ==
    /\ HasTicket(t)
    /\ Moves(t)
    /\ turns'[t].prior = turns[t].prior
    /\ turns'[t].ticket = NoTicket
    /\ ~HasTicket(t)'

GivesBack(t) ==
    /\ Parts(t)
    /\ Release(turns[t].ticket)
    /\ turns'[t].charged = turns[t].charged

(* The turn is over, cancelled, and no longer counts what it is charged.   *)
Unheard(t) ==
    /\ turns'[t].charged = turns[t].charged
    /\ turns'[t].pc = "ended" /\ turns'[t].cancelled

Pays(t) ==
    /\ Parts(t)
    /\ \E actual \in 0 .. MaxTokens :
         /\ Settle(turns[t].ticket, actual)
         /\ \/ turns'[t].charged = Charged(t, actual)
            \/ Unheard(t)

Abandons(t) ==
    /\ Parts(t)
    /\ UNCHANGED <<tickets, sessionUsage, dailyUsage, tokenSpend, inherited>>
    /\ turns'[t].charged = turns[t].charged
    /\ Faults \cap {"lost_release", "ledger_error"} # {}

TurnShape(t) == Quiet(t) \/ TakesHold(t) \/ GivesBack(t) \/ Pays(t) \/ Abandons(t)

(* What the updates of a scope do to the fields the shapes mention.        *)
LEMMA GoesFields ==
    ASSUME TypeOK, NEW t \in Turn, NEW pc, Goes(t, pc),
           turns[t].pc # "ended"
    PROVE  /\ Moves(t)
           /\ turns'[t].pc = pc
           /\ turns'[t].prior = turns[t].prior
           /\ turns'[t].charged = turns[t].charged
           /\ turns'[t].ticket = turns[t].ticket
  BY DEF TypeOK, TurnState, Goes, Moves

LEMMA TakesFields ==
    ASSUME TypeOK, NEW t \in Turn, NEW k, NEW n, NEW pc, NEW reduced,
           Takes(t, k, n, pc, reduced),
           turns[t].pc # "ended"
    PROVE  /\ Moves(t)
           /\ turns'[t].pc = pc
           /\ turns'[t].prior = turns[t].prior
           /\ turns'[t].charged = turns[t].charged
           /\ turns'[t].ticket = k
  BY DEF TypeOK, TurnState, Takes, Moves

LEMMA LeavesFields ==
    ASSUME TypeOK, NEW t \in Turn, NEW pc, Leaves(t, pc),
           turns[t].pc # "ended"
    PROVE  /\ Moves(t)
           /\ turns'[t].pc = pc
           /\ turns'[t].prior = turns[t].prior
           /\ turns'[t].charged = turns[t].charged
           /\ turns'[t].ticket = NoTicket
  BY DEF TypeOK, TurnState, Leaves, Moves

(* Every action of a turn has one of the shapes.                           *)
LEMMA ShapeOfTurn ==
    ASSUME TypeOK, NEW t \in Turn,
           \/ Opening(t) \/ Attempt(t) \/ Ending(t) \/ Failure(t)
           \/ \E usage \in Usages : UnscopedCall(t, usage)
    PROVE  TurnShape(t)
  <1> USE DEF HasTicket, Holder
  <1>a. turns[t] \in TurnState /\ turns \in [Turn -> TurnState]
    BY DEF TypeOK
  <1>b. /\ turns[t].granted \in 0 .. MaxTokens
        /\ turns[t].prior \in Nat
        /\ turns[t].session \in Session
    BY <1>a DEF TurnState
  <1>c. Usages \subseteq 0 .. MaxTokens
    BY BudgetAssumption
  <1>d. ASSUME NEW pc, Goes(t, pc),
               UNCHANGED <<tickets, sessionUsage, dailyUsage, tokenSpend, inherited>>,
               turns[t].pc # "ended",
               Holder(t) => pc \in {"probing", "misfit", "calling", "reconciling", "crashed"},
               pc \notin {"probing", "misfit", "calling", "reconciling"}
        PROVE  Quiet(t)
    BY <1>d, GoesFields DEF Quiet
  <1>1. ASSUME Start(t)
        PROVE  Quiet(t)
    BY <1>1, <1>a DEF Start, Quiet, Moves, TurnState
  <1>2. ASSUME NEW k \in Ticket, Preflight(t, k)
        PROVE  TakesHold(t)
    <2>1. PICK n \in 1 .. MaxTokens : /\ Reserve(t, k, 1, turns[t].prior, n)
                                      /\ Takes(t, k, n, "probing", FALSE)
      BY <1>2 DEF Preflight
    <2>2. 1 \in 1 .. MaxTokens
      BY Bounds
    <2> QED
      BY <1>2, <2>1, <2>2, TakesFields DEF Preflight, TakesHold
  <1>3. ASSUME PreflightRefused(t)
        PROVE  Quiet(t)
    BY <1>3, <1>d DEF PreflightRefused
  <1>4. ASSUME PreflightReleases(t)
        PROVE  GivesBack(t)
    BY <1>4, LeavesFields DEF PreflightReleases, GivesBack, Parts
  <1>5. ASSUME NEW k \in Ticket, NEW request \in Requests, Begin(t, k, request)
        PROVE  TakesHold(t)
    <2>1. PICK n \in 1 .. MaxTokens :
              /\ Reserve(t, k, request[1] + request[2], 0, n)
              /\ Takes(t, k, n, IF turns[t].hard /\ n <= request[1]
                                THEN "misfit" ELSE "calling",
                          n < request[1] + request[2])
      BY <1>5 DEF Begin
    <2>2. request[1] + request[2] \in 1 .. MaxTokens
      BY BudgetAssumption
    <2> QED
      BY <1>5, <2>1, <2>2, TakesFields DEF Begin, TakesHold
  <1>6. ASSUME BeginRefused(t)
        PROVE  Quiet(t)
    BY <1>6, <1>d DEF BeginRefused
  <1>7. ASSUME MisfitReleases(t)
        PROVE  GivesBack(t)
    BY <1>7, LeavesFields DEF MisfitReleases, GivesBack, Parts
  <1>8. ASSUME Abort(t)
        PROVE  GivesBack(t)
    BY <1>8, LeavesFields DEF Abort, Stops, GivesBack, Parts
  <1>9. ASSUME NEW usage \in Usages, Finish(t, usage)
        PROVE  Pays(t)
    <2> DEFINE actual == IF usage = 0 THEN turns[t].granted ELSE usage
    <2>1. actual \in 0 .. MaxTokens
      BY <1>b, <1>c
    <2>2. /\ Settle(turns[t].ticket, actual)
          /\ turns[t].pc = "calling"
      BY <1>9 DEF Finish
    <2>3. /\ turns'[t].charged = Charged(t, actual)
          /\ Parts(t)
      BY <1>9, <1>a DEF Finish, Stops, Parts, Moves, TurnState
    <2> HIDE DEF actual
    <2> QED
      BY <2>1, <2>2, <2>3 DEF Pays
  <1>10. ASSUME NEW usage \in Usages, UnscopedCall(t, usage)
         PROVE  Quiet(t)
    BY <1>10, <1>a DEF UnscopedCall, Quiet, Moves, TurnState
  <1>11. ASSUME EndTurn(t) \/ NothingMissing(t) \/ ReconcileRefused(t)
         PROVE  Quiet(t)
    BY <1>11, <1>d DEF EndTurn, NothingMissing, ReconcileRefused, Done, Stops
  <1>12. ASSUME NEW k \in Ticket, Reconcile(t, k)
         PROVE  TakesHold(t)
    <2>1. PICK n \in 1 .. MaxTokens : /\ Reserve(t, k, Missing(t), turns[t].prior, n)
                                      /\ Takes(t, k, n, "reconciling", FALSE)
      BY <1>12 DEF Reconcile
    <2>2. Missing(t) \in 1 .. MaxTokens
      BY <1>12, MissingType, Bounds DEF Reconcile
    <2> QED
      BY <1>12, <2>1, <2>2, TakesFields DEF Reconcile, TakesHold
  <1>13. ASSUME ReconcileSettles(t)
         PROVE  Pays(t)
    <2>1. Missing(t) \in 0 .. MaxTokens /\ turns[t].pc = "reconciling"
      BY <1>13, MissingType DEF ReconcileSettles
    <2>2. Settle(turns[t].ticket, Missing(t))
      BY <1>13 DEF ReconcileSettles
    <2>3. /\ turns'[t].charged = Charged(t, Missing(t))
          /\ Parts(t)
      BY <1>13, <1>a DEF ReconcileSettles, Done, Parts, Moves, TurnState
    <2> QED
      BY <2>1, <2>2, <2>3 DEF Pays
  <1>14. ASSUME Sync(t)
         PROVE  Quiet(t)
    BY <1>14, GoesFields DEF Sync, Quiet
  <1>15. ASSUME Cancel(t)
         PROVE  Quiet(t)
    BY <1>15, <1>a DEF Cancel, Quiet, Moves, TurnState
  <1>16. ASSUME CancelReconcile(t)
         PROVE  GivesBack(t)
    BY <1>16, <1>a DEF CancelReconcile, CancelledOut, GivesBack, Parts, Moves, TurnState
  <1>17. ASSUME LoseRelease(t)
         PROVE  Abandons(t)
    BY <1>17, <1>a DEF LoseRelease, CancelledOut, Abandons, Parts, Moves, TurnState
  <1>18. ASSUME NEW usage \in Usages, SettleFails(t, usage)
         PROVE  Abandons(t)
    BY <1>18, <1>a DEF SettleFails, Abandons, Parts, Moves, TurnState
  <1>19. ASSUME Crash(t)
         PROVE  Quiet(t)
    BY <1>19, <1>d DEF Crash
  <1>20. ASSUME CancelSettle(t)
         PROVE  Pays(t)
    <2>1. Missing(t) \in 0 .. MaxTokens /\ turns[t].pc = "reconciling"
      BY <1>20, MissingType DEF CancelSettle
    <2>2. Settle(turns[t].ticket, Missing(t))
      BY <1>20 DEF CancelSettle
    <2>3. turns'[t] = [turns[t] EXCEPT !.pc = "ended", !.cancelled = TRUE,
                          !.ticket = NoTicket, !.granted = 0, !.reduced = FALSE,
                          !.charged = IF Settles(turns[t].ticket, Missing(t))
                                      THEN turns[t].charged ELSE Charged(t, Missing(t))]
      BY <1>20, <1>a DEF CancelSettle
    <2>4. turns'[t].charged = Charged(t, Missing(t)) \/ Unheard(t)
      BY <2>3, <1>a DEF Unheard, TurnState
    <2>5. Parts(t)
      BY <1>20, <2>1, <2>3, <1>a DEF CancelSettle, Parts, Moves, TurnState
    <2> QED
      BY <2>1, <2>2, <2>4, <2>5 DEF Pays
  <1>21. ASSUME SaveTurn(t)
         PROVE  Quiet(t)
    BY <1>21, <1>a DEF SaveTurn, Quiet, Moves, TurnState
  <1> QED
    BY <1>1, <1>2, <1>3, <1>4, <1>5, <1>6, <1>7, <1>8, <1>9, <1>10, <1>11, <1>12,
       <1>13, <1>14, <1>15, <1>16, <1>17, <1>18, <1>19, <1>20, <1>21
       DEF TurnShape, Opening, Attempt, Ending, Failure

(* A step is one turn's, or time passing.                                  *)
LEMMA ShapeOfStep ==
    ASSUME TypeOK, [Next]_vars
    PROVE  \/ \E t \in Turn : TurnShape(t)
           \/ \E s, source \in Session : Branch(s, source)
           \/ \E s \in Session : Forget(s)
           \/ \E k \in Ticket : Expire(k)
           \/ Midnight
           \/ UNCHANGED vars
  BY ShapeOfTurn DEF Next

-----------------------------------------------------------------------------
(* What the transactions do to the rows.                                   *)

LEMMA ReserveRows ==
    ASSUME TypeOK, NEW t \in Turn, NEW k \in Ticket, NEW requested, NEW prior,
           NEW n \in 1 .. MaxTokens, Reserve(t, k, requested, prior, n)
    PROVE  /\ tickets[k] = Absent
           /\ \A x \in Turn : turns[x].ticket # k
           /\ tickets'[k].state = "active" /\ tickets'[k].turn = t
           /\ tickets'[k].session = turns[t].session
           /\ tickets'[k].reserved = n /\ tickets'[k].hard = turns[t].hard
           /\ \A x \in Ticket \ {k} : tickets'[x] = Swept[x]
           /\ \A x \in Ticket \ {k} :
                 \/ tickets'[x] = tickets[x]
                 \/ tickets[x].state = "active" /\ tickets'[x] = Absent
  BY DEF TypeOK, Reserve, Fresh, Swept

LEMMA SettleRows ==
    ASSUME TypeOK, NEW k \in Ticket, NEW actual \in 0 .. MaxTokens, Settle(k, actual)
    PROVE  /\ \A x \in Ticket \ {k} : tickets'[x] = tickets[x]
           /\ tickets[k].state # "active" => UNCHANGED ledger
           /\ tickets[k].state = "active" =>
                 /\ tickets[k] \in TicketRow
                 /\ tickets'[k].state = "settled" /\ tickets'[k].actual = actual
                 /\ tickets'[k].turn = tickets[k].turn
                 /\ tickets'[k].session = tickets[k].session
                 /\ tickets'[k].overrun = Overrun(k, actual)
                 /\ sessionUsage' = [sessionUsage EXCEPT ![tickets[k].session] = @ + actual]
                 /\ dailyUsage' = [dailyUsage EXCEPT ![Owner[tickets[k].session]] = @ + actual]
  <1>1. CASE tickets[k].state # "active"
    BY <1>1 DEF Settle, ledger
  <1>2. CASE tickets[k].state = "active"
    <2>1. tickets[k] \in TicketRow
      BY <1>2, ActiveRow DEF TypeOK, Rows
    <2>2. tickets' = [tickets EXCEPT ![k] =
                         [tickets[k] EXCEPT !.state = "settled", !.actual = actual,
                                            !.overrun = Overrun(k, actual)]]
      BY <1>2 DEF Settle
    <2>3. tickets'[k] = [tickets[k] EXCEPT !.state = "settled", !.actual = actual,
                                           !.overrun = Overrun(k, actual)]
      BY <2>2 DEF TypeOK
    <2>4. /\ tickets'[k].state = "settled" /\ tickets'[k].actual = actual
          /\ tickets'[k].turn = tickets[k].turn
          /\ tickets'[k].session = tickets[k].session
          /\ tickets'[k].overrun = Overrun(k, actual)
      BY <2>1, <2>3 DEF TicketRow
    <2> QED
      BY <1>2, <2>1, <2>2, <2>4 DEF Settle, TypeOK
  <1> QED
    BY <1>1, <1>2

LEMMA ReleaseRows ==
    ASSUME TypeOK, NEW k \in Ticket, Release(k)
    PROVE  /\ \A x \in Ticket \ {k} : tickets'[x] = tickets[x]
           /\ tickets'[k].state # "active"
           /\ \/ tickets'[k] = tickets[k]
              \/ tickets[k].state = "active" /\ tickets'[k] = Absent
  BY DEF TypeOK, Release, Absent

LEMMA ExpireRows ==
    ASSUME TypeOK, NEW k \in Ticket, Expire(k)
    PROVE  /\ \A x \in Ticket \ {k} : tickets'[x] = tickets[x]
           /\ tickets[k].state = "active" /\ tickets'[k].state = "active"
           /\ tickets[k] \in TicketRow
           /\ tickets'[k].turn = tickets[k].turn
           /\ tickets'[k].session = tickets[k].session
           /\ tickets'[k].reserved = tickets[k].reserved
           /\ tickets'[k].hard = tickets[k].hard
  <1>1. tickets[k] \in TicketRow
    BY ActiveRow DEF TypeOK, Rows, Expire
  <1>2. tickets' = [tickets EXCEPT ![k] = [tickets[k] EXCEPT !.expired = TRUE]]
    BY DEF Expire, TypeOK
  <1> QED
    BY <1>1, <1>2 DEF TypeOK, TicketRow, Expire

(* The settlements are what they were.                                     *)
SameSettlements ==
    \A k \in Ticket :
        \/ tickets'[k] = tickets[k]
        \/ tickets'[k].state # "settled" /\ tickets[k].state # "settled"

LEMMA SameSums ==
    ASSUME SameSettlements
    PROVE  /\ \A s \in Session : SettledIn(s)' = SettledIn(s)
           /\ \A t \in Turn : SettledBy(t)' = SettledBy(t)
           /\ \A A : Overran(A)' = Overran(A)
  BY DEF SameSettlements, SettledIn, SettledBy, Overran

LEMMA ReserveSettlements ==
    ASSUME TypeOK, NEW t \in Turn, NEW k \in Ticket, NEW requested, NEW prior,
           NEW n \in 1 .. MaxTokens, Reserve(t, k, requested, prior, n)
    PROVE  SameSettlements
  BY ReserveRows DEF SameSettlements, Absent

LEMMA ReleaseSettlements ==
    ASSUME TypeOK, NEW k \in Ticket, Release(k)
    PROVE  SameSettlements
  BY ReleaseRows DEF SameSettlements, Absent

LEMMA ExpireSettlements ==
    ASSUME TypeOK, NEW k \in Ticket, Expire(k)
    PROVE  SameSettlements
  BY ExpireRows DEF SameSettlements

LEMMA SettledTypes ==
    ASSUME TypeOK
    PROVE  /\ \A s \in Session : SettledIn(s) \in [Ticket -> 0 .. MaxTokens]
           /\ \A t \in Turn : SettledBy(t) \in [Ticket -> 0 .. MaxTokens]
  <1>1. ASSUME NEW k \in Ticket, tickets[k].state = "settled"
        PROVE  tickets[k].actual \in 0 .. MaxTokens
    BY <1>1 DEF TypeOK, TicketRow, Absent
  <1> QED
    BY <1>1, Bounds DEF SettledIn, SettledBy

LEMMA SettledTypesNext ==
    ASSUME TypeOK'
    PROVE  /\ \A s \in Session : SettledIn(s)' \in [Ticket -> 0 .. MaxTokens]
           /\ \A t \in Turn : SettledBy(t)' \in [Ticket -> 0 .. MaxTokens]
  <1>1. ASSUME NEW k \in Ticket, tickets'[k].state = "settled"
        PROVE  tickets'[k].actual \in 0 .. MaxTokens
    BY <1>1 DEF TypeOK, TicketRow, Absent
  <1> QED
    BY <1>1, Bounds DEF SettledIn, SettledBy

-----------------------------------------------------------------------------
(* The inductive invariant.                                                *)

(* A turn's ticket is its own, or is in no table.                          *)
OwnTickets ==
    \A t \in Turn : turns[t].ticket \in Ticket =>
        LET row == tickets[turns[t].ticket] IN row = Absent \/ row.turn = t

(* A turn brings along no more than the ledger knows, or exactly what its  *)
(* session inherited: this is why a prior total raises session_usage to    *)
(* that at most.                                                           *)
Known(s, prior) == prior <= sessionUsage[s] \/ prior = inherited[s]

PriorKnown ==
    /\ \A s \in Session : Known(s, tokenSpend[s])
    /\ \A t \in Turn : Known(turns[t].session, turns[t].prior)

RealHolds ==
    /\ \A t \in Turn : turns[t].hard \in Throttles
    /\ \A k \in Ticket : tickets[k].state = "active"
            => tickets[k].reserved > 0 /\ tickets[k].hard \in Throttles

IInv ==
    /\ TypeOK
    /\ HoldsTicket
    /\ OwnTickets
    /\ PriorKnown
    /\ RealHolds
    /\ LedgerBalances
    /\ ChargedAsSettled

LEMMA InvariantInit == Init => IInv
  <1> SUFFICES ASSUME Init
               PROVE  IInv
    OBVIOUS
  <1>1. ASSUME NEW t \in Turn
        PROVE  /\ turns[t] \in TurnState
               /\ turns[t].pc = "idle" /\ turns[t].prior = 0
               /\ turns[t].session \in Session
               /\ turns[t].ticket = NoTicket /\ turns[t].charged = 0
               /\ turns[t].hard \in Throttles
    BY BudgetAssumption, Bounds DEF Init, TurnState, Place
  <1>2. turns \in [Turn -> TurnState]
    BY <1>1 DEF Init
  <1>3. TypeOK
    BY <1>2 DEF Init, TypeOK
  <1>4. HoldsTicket /\ OwnTickets
    BY <1>1, BudgetAssumption DEF HoldsTicket, HasTicket, OwnTickets
  <1>5. PriorKnown
    BY <1>1 DEF Init, PriorKnown, Known
  <1>6. RealHolds
    BY <1>1 DEF Init, RealHolds, Absent
  <1>7. LedgerBalances
    <2> SUFFICES ASSUME NEW s \in Session
                 PROVE  Total(SettledIn(s), MaxTokens) = 0
      BY DEF LedgerBalances, Init
    <2>1. SettledIn(s) \in [Ticket -> 0 .. MaxTokens] /\ \A k \in Ticket : SettledIn(s)[k] = 0
      BY <1>3, SettledTypes DEF Init, SettledIn, Absent
    <2> QED
      BY <2>1, TotalZero, Bounds DEF Init
  <1>8. ChargedAsSettled
    <2> SUFFICES ASSUME NEW t \in Turn
                 PROVE  Total(SettledBy(t), MaxTokens) = 0
      BY <1>1 DEF ChargedAsSettled
    <2>1. SettledBy(t) \in [Ticket -> 0 .. MaxTokens] /\ \A k \in Ticket : SettledBy(t)[k] = 0
      BY <1>3, SettledTypes DEF Init, SettledBy, Absent
    <2> QED
      BY <2>1, TotalZero, Bounds
  <1> QED
    BY <1>3, <1>4, <1>5, <1>6, <1>7, <1>8 DEF IInv

-----------------------------------------------------------------------------
(* A reservation raises session_usage to what its session inherited, or    *)
(* leaves it.                                                              *)
LEMMA RaisedTo ==
    ASSUME TypeOK, PriorKnown, NEW t \in Turn, NEW prior \in {0, turns[t].prior}
    PROVE  LET s == turns[t].session
           IN  \/ Used(s, prior) = sessionUsage[s]
               \/ Used(s, prior) = inherited[s] /\ sessionUsage[s] < inherited[s]
  <1>1. PICK s \in Session : s = turns[t].session
    BY DEF TypeOK, TurnState
  <1>2. prior \in Nat /\ sessionUsage[s] \in Nat /\ inherited[s] \in Nat
    BY <1>1 DEF TypeOK, TurnState
  <1>3. prior <= sessionUsage[s] \/ prior = inherited[s]
    BY <1>1, <1>2 DEF PriorKnown, Known
  <1> QED
    BY <1>1, <1>2, <1>3 DEF Used

(* The sums move as the sums they stand for do.                            *)
LEMMA BalanceKept ==
    ASSUME TypeOK, TypeOK', LedgerBalances, PriorKnown, [Next]_vars, HoldsTicket
    PROVE  LedgerBalances' /\ \A s \in Session : sessionUsage[s] <= sessionUsage'[s]
  <1> DEFINE Now(s) == Total(SettledIn(s), MaxTokens)
             Then(s) == Total(SettledIn(s)', MaxTokens)
             Goal == /\ \A s \in Session : /\ Then(s) <= sessionUsage'[s]
                                           /\ sessionUsage'[s] <= Then(s) + inherited'[s]
                     /\ \A s \in Session : sessionUsage[s] <= sessionUsage'[s]
  <1>a. SUFFICES Goal
    BY DEF LedgerBalances
  <1>b. \A s \in Session : /\ sessionUsage[s] \in Nat /\ sessionUsage'[s] \in Nat
                           /\ inherited[s] \in Nat /\ inherited'[s] \in Nat
                           /\ Now(s) <= sessionUsage[s]
                           /\ sessionUsage[s] <= Now(s) + inherited[s]
    BY DEF TypeOK, LedgerBalances
  <1>d. \A s \in Session : Now(s) \in Nat
    BY SettledTypes, TokensFinite, Bounds, BudgetAssumption
  <1>e. ASSUME SameSettlements
        PROVE  \A s \in Session : Then(s) = Now(s)
    BY <1>e, SameSums
  <1> HIDE DEF Now, Then
  <1>c. ASSUME SameSettlements, UNCHANGED sessionUsage,
               \A s \in Session : inherited[s] <= inherited'[s]
        PROVE  Goal
    BY <1>b, <1>c, <1>d, <1>e
  <1>f. ASSUME SameSettlements, UNCHANGED <<sessionUsage, inherited>>
        PROVE  Goal
    BY <1>b, <1>c, <1>f
  <1>1. ASSUME NEW t \in Turn, Quiet(t)
        PROVE  Goal
    BY <1>1, <1>f DEF Quiet, SameSettlements
  <1>2. ASSUME NEW t \in Turn, TakesHold(t)
        PROVE  Goal
    <2>1. PICK k \in Ticket, n \in 1 .. MaxTokens, prior \in {0, turns[t].prior},
               requested \in 1 .. MaxTokens : Reserve(t, k, requested, prior, n)
      BY <1>2 DEF TakesHold
    <2>2. PICK home \in Session : home = turns[t].session
      BY DEF TypeOK, TurnState
    <2>3. /\ sessionUsage' = [sessionUsage EXCEPT ![home] = Used(home, prior)]
          /\ UNCHANGED inherited
      BY <2>1, <2>2 DEF Reserve
    <2>4. \/ Used(home, prior) = sessionUsage[home]
          \/ Used(home, prior) = inherited[home] /\ sessionUsage[home] < inherited[home]
      BY <2>2, RaisedTo
    <2>5. \A s \in Session : Then(s) = Now(s)
      BY <2>1, ReserveSettlements, <1>e
    <2>6. /\ sessionUsage'[home] = Used(home, prior)
          /\ \A s \in Session \ {home} : sessionUsage'[s] = sessionUsage[s]
      BY <2>3 DEF TypeOK
    <2> QED
      BY <2>3, <2>4, <2>5, <2>6, <1>b, <1>d
  <1>3. ASSUME NEW t \in Turn, GivesBack(t)
        PROVE  Goal
    <2>1. turns[t].ticket \in Ticket /\ Release(turns[t].ticket)
      BY <1>3 DEF GivesBack, Parts, HoldsTicket
    <2>2. SameSettlements
      BY <2>1, ReleaseSettlements
    <2> QED
      BY <2>1, <2>2, <1>f DEF Release
  <1>4. ASSUME NEW t \in Turn, Pays(t)
        PROVE  Goal
    <2> DEFINE k == turns[t].ticket
    <2>1. k \in Ticket
      BY <1>4 DEF Pays, Parts, HoldsTicket
    <2>2. PICK actual \in 0 .. MaxTokens : Settle(k, actual)
      BY <1>4 DEF Pays
    <2> HIDE DEF k
    <2>3. CASE tickets[k].state # "active"
      <3>1. SameSettlements /\ UNCHANGED <<sessionUsage, inherited>>
        BY <2>1, <2>2, <2>3, SettleRows DEF SameSettlements, ledger, Settle
      <3> QED
        BY <3>1, <1>f
    <2>4. CASE tickets[k].state = "active"
      <3>0. PICK home \in Session : home = tickets[k].session
        BY <2>1, <2>2, <2>4, SettleRows DEF TicketRow
      <3>1. home \in Session /\ actual \in Nat
        BY <2>2, Bounds
      <3>2. sessionUsage' = [sessionUsage EXCEPT ![home] = @ + actual]
        BY <2>1, <2>2, <2>4, <3>0, SettleRows
      <3>3. ASSUME NEW s \in Session, s # home
            PROVE  Then(s) = Now(s) /\ sessionUsage'[s] = sessionUsage[s]
        <4>1. sessionUsage'[s] = sessionUsage[s]
          BY <3>1, <3>2, <3>3 DEF TypeOK
        <4>2. SettledIn(s)' = SettledIn(s)
          BY <2>1, <2>2, <2>4, <3>0, <3>3, SettleRows DEF SettledIn
        <4> QED
          BY <4>1, <4>2 DEF Now, Then
      <3>4. /\ SettledIn(home) \in [Ticket -> 0 .. MaxTokens]
            /\ SettledIn(home)' \in [Ticket -> 0 .. MaxTokens]
        BY <3>1, SettledTypes, SettledTypesNext
      <3>5. /\ SettledIn(home)[k] = 0
            /\ SettledIn(home)'[k] = actual
            /\ \A x \in Ticket \ {k} : SettledIn(home)[x] = SettledIn(home)'[x]
        BY <2>1, <2>2, <2>4, <3>0, SettleRows DEF SettledIn
      <3>6. Then(home) = Now(home) + actual
        <4>1. Total(SettledIn(home)', MaxTokens) + SettledIn(home)[k]
                 = Total(SettledIn(home), MaxTokens) + SettledIn(home)'[k]
          BY <2>1, <3>4, <3>5, TotalChange, Bounds, BudgetAssumption
        <4>2. /\ Total(SettledIn(home), MaxTokens) \in Nat
              /\ Total(SettledIn(home)', MaxTokens) \in Nat
          BY <3>4, TokensFinite, Bounds, BudgetAssumption
        <4> QED
          BY <4>1, <4>2, <3>1, <3>5 DEF Now, Then
      <3>7. sessionUsage'[home] = sessionUsage[home] + actual
        BY <3>1, <3>2 DEF TypeOK
      <3>8. UNCHANGED inherited
        BY <2>2 DEF Settle
      <3> QED
        BY <1>b, <1>d, <3>1, <3>3, <3>6, <3>7, <3>8
    <2> QED
      BY <2>3, <2>4
  <1>5. ASSUME NEW t \in Turn, Abandons(t)
        PROVE  Goal
    BY <1>5, <1>f DEF Abandons, SameSettlements
  <1>6. ASSUME NEW k \in Ticket, Expire(k)
        PROVE  Goal
    <2>1. SameSettlements
      BY <1>6, ExpireSettlements
    <2> QED
      BY <1>6, <2>1, <1>f DEF Expire
  <1>7. CASE Midnight \/ UNCHANGED vars
    BY <1>7, <1>f DEF Midnight, vars, SameSettlements
  <1>8. ASSUME NEW s \in Session, NEW source \in Session, Branch(s, source)
        PROVE  Goal
    <2>1. \A x \in Session : inherited[x] <= inherited'[x]
      <3>1. inherited[s] = 0 /\ \A x \in Session \ {s} : inherited'[x] = inherited[x]
        BY <1>8 DEF Branch, TypeOK
      <3> QED
        BY <3>1, <1>b
    <2> QED
      BY <1>8, <2>1, <1>c DEF Branch, SameSettlements
  <1>9. ASSUME NEW s \in Session, Forget(s)
        PROVE  Goal
    BY <1>9, <1>f DEF Forget, SameSettlements
  <1> QED
    BY <1>1, <1>2, <1>3, <1>4, <1>5, <1>6, <1>7, <1>8, <1>9, ShapeOfStep DEF TurnShape

LEMMA ChargedKept ==
    ASSUME TypeOK, TypeOK', ChargedAsSettled, OwnTickets, [Next]_vars, HoldsTicket
    PROVE  ChargedAsSettled'
  <1> DEFINE Now(x) == Total(SettledBy(x), MaxTokens)
             Then(x) == Total(SettledBy(x)', MaxTokens)
             Over(x) == turns'[x].pc = "ended" /\ turns'[x].cancelled
             Goal == \A x \in Turn : /\ turns'[x].charged <= Then(x)
                                     /\ turns'[x].charged = Then(x) \/ Over(x)
  <1>a. SUFFICES Goal
    BY DEF ChargedAsSettled
  <1>b. \A x \in Turn : /\ turns[x].charged \in Nat
                        /\ turns[x].charged <= Now(x)
                        /\ turns[x].pc # "ended" => turns[x].charged = Now(x)
                        /\ \/ turns[x].charged = Now(x)
                           \/ turns[x].pc = "ended" /\ turns[x].cancelled
    BY DEF ChargedAsSettled, TypeOK, TurnState
  <1>d. \A x \in Turn : Now(x) \in Nat
    BY SettledTypes, TokensFinite, Bounds, BudgetAssumption
  <1>e. ASSUME SameSettlements
        PROVE  \A x \in Turn : Then(x) = Now(x)
    BY <1>e, SameSums
  <1> HIDE DEF Now, Then
  <1>f. ASSUME NEW x \in Turn, turns'[x] = turns[x], Then(x) = Now(x)
        PROVE  /\ turns'[x].charged <= Then(x)
               /\ turns'[x].charged = Then(x) \/ Over(x)
    BY <1>b, <1>f
  <1>c. ASSUME SameSettlements,
               \A x \in Turn : \/ turns'[x] = turns[x]
                               \/ /\ turns[x].pc # "ended"
                                  /\ turns'[x].charged = turns[x].charged
        PROVE  Goal
    <2> SUFFICES ASSUME NEW x \in Turn
                 PROVE  /\ turns'[x].charged <= Then(x)
                        /\ turns'[x].charged = Then(x) \/ Over(x)
      OBVIOUS
    <2>1. Then(x) = Now(x)
      BY <1>c, <1>e
    <2>2. CASE turns'[x] = turns[x]
      BY <2>1, <2>2, <1>f
    <2>3. CASE turns[x].pc # "ended" /\ turns'[x].charged = turns[x].charged
      BY <2>1, <2>3, <1>b, <1>d
    <2> QED
      BY <1>c, <2>2, <2>3
  <1>1. ASSUME NEW t \in Turn, Quiet(t)
        PROVE  Goal
    BY <1>1, <1>c DEF Quiet, SameSettlements, Moves
  <1>2. ASSUME NEW t \in Turn, TakesHold(t)
        PROVE  Goal
    <2>1. PICK k \in Ticket, n \in 1 .. MaxTokens, prior \in {0, turns[t].prior},
               requested \in 1 .. MaxTokens : Reserve(t, k, requested, prior, n)
      BY <1>2 DEF TakesHold
    <2>2. SameSettlements
      BY <2>1, ReserveSettlements
    <2> QED
      BY <1>2, <2>2, <1>c DEF TakesHold, Moves
  <1>3. ASSUME NEW t \in Turn, GivesBack(t)
        PROVE  Goal
    <2>1. turns[t].ticket \in Ticket /\ Release(turns[t].ticket)
      BY <1>3 DEF GivesBack, Parts, HoldsTicket
    <2>2. SameSettlements
      BY <2>1, ReleaseSettlements
    <2> QED
      BY <1>3, <2>2, <1>c DEF GivesBack, Parts, Moves, HasTicket
  <1>4. ASSUME NEW t \in Turn, Pays(t)
        PROVE  Goal
    <2>1. PICK k \in Ticket : k = turns[t].ticket
      BY <1>4 DEF Pays, Parts, HoldsTicket
    <2>2. PICK actual \in 0 .. MaxTokens :
              /\ Settle(k, actual)
              /\ turns'[t].charged = Charged(t, actual) \/ Unheard(t)
      BY <1>4, <2>1 DEF Pays
    <2>3. /\ \A x \in Turn \ {t} : turns'[x] = turns[x]
          /\ turns[t].pc # "ended"
      BY <1>4 DEF Pays, Parts, Moves, HasTicket
    <2>4. CASE tickets[k].state # "active"
      <3>1. turns'[t].charged = turns[t].charged
        BY <2>1, <2>2, <2>4 DEF Charged, Unheard
      <3>2. SameSettlements
        BY <2>2, <2>4, SettleRows DEF SameSettlements, ledger
      <3> QED
        BY <2>3, <3>1, <3>2, <1>c
    <2>5. CASE tickets[k].state = "active"
      <3>1. tickets[k].turn = t
        BY <2>1, <2>5 DEF OwnTickets, Absent
      <3>2. ASSUME NEW x \in Turn \ {t}
            PROVE  Then(x) = Now(x)
        <4>1. SettledBy(x)' = SettledBy(x)
          BY <2>2, <2>5, <3>1, SettleRows DEF SettledBy
        <4> QED
          BY <4>1 DEF Now, Then
      <3>3. /\ SettledBy(t) \in [Ticket -> 0 .. MaxTokens]
            /\ SettledBy(t)' \in [Ticket -> 0 .. MaxTokens]
        BY SettledTypes, SettledTypesNext
      <3>4. /\ SettledBy(t)[k] = 0
            /\ SettledBy(t)'[k] = actual
            /\ \A x \in Ticket \ {k} : SettledBy(t)[x] = SettledBy(t)'[x]
        BY <2>2, <2>5, <3>1, SettleRows DEF SettledBy
      <3>5. Total(SettledBy(t)', MaxTokens) + SettledBy(t)[k]
               = Total(SettledBy(t), MaxTokens) + SettledBy(t)'[k]
        BY <3>3, <3>4, TotalChange, Bounds, BudgetAssumption
      <3>6. /\ Total(SettledBy(t), MaxTokens) \in Nat
            /\ Total(SettledBy(t)', MaxTokens) \in Nat
        BY <3>3, TokensFinite, Bounds, BudgetAssumption
      <3>7. actual \in Nat
        BY Bounds
      <3>8. Then(t) = Now(t) + actual
        BY <3>4, <3>5, <3>6, <3>7 DEF Now, Then
      <3>9. \/ turns'[t].charged = turns[t].charged + actual
            \/ turns'[t].charged = turns[t].charged /\ Over(t)
        BY <2>1, <2>2, <2>5 DEF Charged, Unheard
      <3>10. /\ turns'[t].charged <= Then(t)
             /\ turns'[t].charged = Then(t) \/ Over(t)
        BY <1>b, <1>d, <2>3, <3>7, <3>8, <3>9
      <3> QED
        BY <2>3, <3>2, <3>10, <1>f
    <2> QED
      BY <2>4, <2>5
  <1>5. ASSUME NEW t \in Turn, Abandons(t)
        PROVE  Goal
    BY <1>5, <1>c DEF Abandons, Parts, Moves, HasTicket, SameSettlements
  <1>6. ASSUME NEW k \in Ticket, Expire(k)
        PROVE  Goal
    BY <1>6, <1>c, ExpireSettlements DEF Expire
  <1>7. CASE \/ Midnight \/ UNCHANGED vars
             \/ \E s, source \in Session : Branch(s, source)
             \/ \E s \in Session : Forget(s)
    BY <1>7, <1>c DEF Midnight, Branch, Forget, vars, SameSettlements
  <1> QED
    BY <1>1, <1>2, <1>3, <1>4, <1>5, <1>6, <1>7, ShapeOfStep DEF TurnShape

(* A turn keeps the ticket it took, and no other turn gets it.             *)
LEMMA TicketsKept ==
    ASSUME TypeOK, HoldsTicket, OwnTickets, [Next]_vars
    PROVE  HoldsTicket' /\ OwnTickets'
  <1> DEFINE Own(x) == turns'[x].ticket \in Ticket =>
                 \/ tickets'[turns'[x].ticket] = Absent
                 \/ tickets'[turns'[x].ticket].turn = x
             Has(x) == HasTicket(x)' => turns'[x].ticket \in Ticket
  <1>a. SUFFICES \A x \in Turn : Own(x) /\ Has(x)
    BY DEF OwnTickets, HoldsTicket
  <1>b. ASSUME NEW x \in Turn, turns'[x] = turns[x]
        PROVE  Has(x)
    BY <1>b DEF HoldsTicket, HasTicket
  <1>c. ASSUME NEW x \in Turn, turns'[x].ticket = turns[x].ticket,
               \A k \in Ticket : k = turns[x].ticket =>
                    \/ tickets'[k] = tickets[k]
                    \/ tickets'[k] = Absent
                    \/ tickets[k] # Absent /\ tickets'[k].turn = tickets[k].turn
        PROVE  Own(x)
    BY <1>c DEF OwnTickets
  <1>1. ASSUME NEW t \in Turn, Quiet(t)
        PROVE  \A x \in Turn : Own(x) /\ Has(x)
    BY <1>1, <1>b, <1>c DEF Quiet, Moves, HoldsTicket
  <1>2. ASSUME NEW t \in Turn, TakesHold(t)
        PROVE  \A x \in Turn : Own(x) /\ Has(x)
    <2>1. PICK k \in Ticket, n \in 1 .. MaxTokens, prior \in {0, turns[t].prior},
               requested \in 1 .. MaxTokens : /\ Reserve(t, k, requested, prior, n)
                                              /\ turns'[t].ticket = k
      BY <1>2 DEF TakesHold
    <2>2. Own(t) /\ Has(t)
      BY <2>1, ReserveRows
    <2>3. ASSUME NEW x \in Turn \ {t}
          PROVE  Own(x) /\ Has(x)
      <3>1. turns'[x] = turns[x]
        BY <1>2 DEF TakesHold, Moves
      <3>2. turns[x].ticket # k
        BY <2>1, ReserveRows
      <3>3. \A l \in Ticket : l = turns[x].ticket =>
                tickets'[l] = tickets[l] \/ tickets'[l] = Absent
        BY <2>1, <3>2, ReserveRows
      <3> QED
        BY <3>1, <3>3, <1>b, <1>c
    <2> QED
      BY <2>2, <2>3
  <1>3. ASSUME NEW t \in Turn, Parts(t), NEW k \in Ticket,
               \A l \in Ticket : \/ tickets'[l] = tickets[l]
                                 \/ tickets'[l] = Absent
                                 \/ tickets[l] # Absent /\ tickets'[l].turn = tickets[l].turn
        PROVE  \A x \in Turn : Own(x) /\ Has(x)
    <2>1. Own(t) /\ Has(t)
      BY <1>3, BudgetAssumption DEF Parts
    <2>2. \A x \in Turn \ {t} : Own(x) /\ Has(x)
      BY <1>3, <1>b, <1>c DEF Parts, Moves
    <2> QED
      BY <2>1, <2>2
  <1>4. ASSUME NEW t \in Turn, GivesBack(t) \/ Pays(t) \/ Abandons(t)
        PROVE  \A x \in Turn : Own(x) /\ Has(x)
    <2>1. PICK k \in Ticket : k = turns[t].ticket
      BY <1>4 DEF GivesBack, Pays, Abandons, Parts, HoldsTicket
    <2>2. Parts(t)
      BY <1>4 DEF GivesBack, Pays, Abandons
    <2>3. CASE GivesBack(t)
      BY <1>3, <2>1, <2>2, <2>3, ReleaseRows DEF GivesBack
    <2>4. CASE Pays(t)
      <3>1. PICK actual \in 0 .. MaxTokens : Settle(k, actual)
        BY <2>1, <2>4 DEF Pays
      <3>2. \A l \in Ticket : \/ tickets'[l] = tickets[l]
                              \/ tickets[l] # Absent /\ tickets'[l].turn = tickets[l].turn
        BY <3>1, SettleRows DEF ledger, Absent
      <3> QED
        BY <1>3, <2>1, <2>2, <3>2
    <2>5. CASE Abandons(t)
      BY <1>3, <2>1, <2>2, <2>5 DEF Abandons
    <2> QED
      BY <1>4, <2>3, <2>4, <2>5
  <1>5. ASSUME NEW k \in Ticket, Expire(k)
        PROVE  \A x \in Turn : Own(x) /\ Has(x)
    BY <1>5, <1>b, <1>c, ExpireRows DEF Expire, Absent
  <1>6. CASE \/ Midnight \/ UNCHANGED vars
             \/ \E s, source \in Session : Branch(s, source)
             \/ \E s \in Session : Forget(s)
    BY <1>6, <1>b, <1>c DEF Midnight, Branch, Forget, vars
  <1> QED
    BY <1>1, <1>2, <1>4, <1>5, <1>6, ShapeOfStep DEF TurnShape

LEMMA PriorKept ==
    ASSUME TypeOK, TypeOK', PriorKnown, [Next]_vars,
           \A s \in Session : sessionUsage[s] <= sessionUsage'[s]
    PROVE  PriorKnown'
  <1>a. /\ \A s \in Session : sessionUsage[s] \in Nat /\ sessionUsage'[s] \in Nat
        /\ \A s \in Session : tokenSpend[s] \in Nat
        /\ \A x \in Turn : turns[x].prior \in Nat /\ turns[x].session \in Session
    BY DEF TypeOK, TurnState
  <1>b. ASSUME UNCHANGED inherited,
               \A s \in Session : \/ tokenSpend'[s] \in {tokenSpend[s], sessionUsage[s], 0}
                                  \/ \E x \in Turn : /\ turns[x].session = s
                                                     /\ tokenSpend'[s] = turns[x].prior,
               \A x \in Turn : /\ turns'[x].session = turns[x].session
                              /\ turns'[x].prior \in {turns[x].prior, 0,
                                                     tokenSpend[turns[x].session]}
        PROVE  PriorKnown'
    <2>0. ASSUME NEW s \in Session, NEW n \in Nat, Known(s, n)
          PROVE  n <= sessionUsage'[s] \/ n = inherited'[s]
      BY <1>a, <1>b, <2>0 DEF Known
    <2>1. ASSUME NEW s \in Session
          PROVE  tokenSpend'[s] <= sessionUsage'[s] \/ tokenSpend'[s] = inherited'[s]
      <3>1. Known(s, tokenSpend[s]) /\ Known(s, sessionUsage[s]) /\ Known(s, 0)
        BY <1>a DEF PriorKnown, Known
      <3>2. CASE tokenSpend'[s] \in {tokenSpend[s], sessionUsage[s], 0}
        BY <3>1, <3>2, <2>0, <1>a
      <3>3. ASSUME NEW x \in Turn, turns[x].session = s, tokenSpend'[s] = turns[x].prior
            PROVE  tokenSpend'[s] <= sessionUsage'[s] \/ tokenSpend'[s] = inherited'[s]
        <4>1. Known(s, turns[x].prior) /\ turns[x].prior \in Nat
          BY <3>3, <1>a DEF PriorKnown
        <4> QED
          BY <3>3, <4>1, <2>0
      <3> QED
        BY <1>b, <3>2, <3>3
    <2>2. ASSUME NEW x \in Turn
          PROVE  LET s == turns'[x].session
                 IN  turns'[x].prior <= sessionUsage'[s] \/ turns'[x].prior = inherited'[s]
      <3>1. PICK s \in Session : s = turns[x].session
        BY <1>a
      <3>2. Known(s, turns[x].prior) /\ Known(s, tokenSpend[s]) /\ Known(s, 0)
        BY <3>1, <1>a DEF PriorKnown, Known
      <3>3. turns'[x].prior \in {turns[x].prior, 0, tokenSpend[s]}
        BY <3>1, <1>b
      <3>4. turns'[x].prior <= sessionUsage'[s] \/ turns'[x].prior = inherited'[s]
        BY <3>2, <3>3, <2>0, <1>a
      <3> QED
        BY <3>1, <3>4, <1>b
    <2> QED
      BY <2>1, <2>2 DEF PriorKnown, Known
  <1>1. ASSUME NEW t \in Turn, Quiet(t)
        PROVE  PriorKnown'
    <2>1. \A s \in Session : \/ tokenSpend'[s] \in {tokenSpend[s], sessionUsage[s], 0}
                             \/ /\ turns[t].session = s
                                /\ tokenSpend'[s] = turns[t].prior
      BY <1>1 DEF Quiet, TypeOK
    <2>2. \A x \in Turn : /\ turns'[x].session = turns[x].session
                          /\ turns'[x].prior \in {turns[x].prior, 0,
                                                 tokenSpend[turns[x].session]}
      BY <1>1 DEF Quiet, Moves
    <2>3. UNCHANGED inherited
      BY <1>1 DEF Quiet
    <2> QED
      BY <2>1, <2>2, <2>3, <1>b
  <1>2. ASSUME NEW t \in Turn, TakesHold(t) \/ GivesBack(t) \/ Pays(t) \/ Abandons(t)
        PROVE  PriorKnown'
    <2>1. UNCHANGED <<tokenSpend, inherited>>
      BY <1>2 DEF TakesHold, GivesBack, Pays, Abandons, Reserve, Release, Settle
    <2>2. Moves(t) /\ turns'[t].prior = turns[t].prior
      BY <1>2 DEF TakesHold, GivesBack, Pays, Abandons, Parts
    <2> QED
      BY <2>1, <2>2, <1>b DEF Moves
  <1>3. CASE (\E k \in Ticket : Expire(k)) \/ Midnight \/ UNCHANGED vars
    BY <1>3, <1>b DEF Expire, Midnight, vars
  <1>4. ASSUME NEW s \in Session, Forget(s)
        PROVE  PriorKnown'
    <2>1. \A x \in Session : tokenSpend'[x] \in {tokenSpend[x], 0}
      BY <1>4 DEF Forget, TypeOK
    <2> QED
      BY <1>4, <2>1, <1>b DEF Forget
  <1>5. ASSUME NEW s \in Session, NEW source \in Session, Branch(s, source)
        PROVE  PriorKnown'
    <2>1. /\ tokenSpend'[s] = inherited'[s]
          /\ inherited[s] = 0 /\ sessionUsage[s] = 0
          /\ \A x \in Session \ {s} : /\ tokenSpend'[x] = tokenSpend[x]
                                       /\ inherited'[x] = inherited[x]
          /\ UNCHANGED <<sessionUsage, turns>>
      BY <1>5 DEF Branch, TypeOK
    <2>2. \A x \in Session, n \in Nat : Known(x, n) =>
              n <= sessionUsage'[x] \/ n = inherited'[x]
      BY <2>1, <1>a DEF Known
    <2> QED
      BY <2>1, <2>2, <1>a DEF PriorKnown, Known
  <1> QED
    BY <1>1, <1>2, <1>3, <1>4, <1>5, ShapeOfStep DEF TurnShape

(* Reservations are positive and as hard as the policy says.               *)
LEMMA HoldsKept ==
    ASSUME TypeOK, RealHolds, [Next]_vars, HoldsTicket
    PROVE  RealHolds'
  <1>a. ASSUME \A x \in Turn : turns'[x].hard = turns[x].hard,
               \A k \in Ticket : \/ tickets'[k] = tickets[k]
                                 \/ tickets'[k].state # "active"
                                 \/ tickets[k].state = "active"
                                      /\ tickets'[k].reserved = tickets[k].reserved
                                      /\ tickets'[k].hard = tickets[k].hard
                                 \/ tickets'[k].reserved > 0
                                      /\ tickets'[k].hard \in Throttles
        PROVE  RealHolds'
    BY <1>a DEF RealHolds
  <1>1. ASSUME NEW t \in Turn, Quiet(t) \/ Abandons(t)
        PROVE  RealHolds'
    BY <1>1, <1>a DEF Quiet, Abandons, Parts, Moves
  <1>2. ASSUME NEW t \in Turn, TakesHold(t)
        PROVE  RealHolds'
    <2>1. PICK k \in Ticket, n \in 1 .. MaxTokens, prior \in {0, turns[t].prior},
               requested \in 1 .. MaxTokens : Reserve(t, k, requested, prior, n)
      BY <1>2 DEF TakesHold
    <2>2. tickets'[k].reserved > 0 /\ tickets'[k].hard \in Throttles
      BY <2>1, ReserveRows DEF RealHolds
    <2>3. \A l \in Ticket \ {k} : tickets'[l] = tickets[l] \/ tickets'[l].state # "active"
      BY <2>1, ReserveRows DEF Absent
    <2> QED
      BY <1>2, <2>2, <2>3, <1>a DEF TakesHold, Moves
  <1>3. ASSUME NEW t \in Turn, GivesBack(t)
        PROVE  RealHolds'
    <2>1. turns[t].ticket \in Ticket /\ Release(turns[t].ticket)
      BY <1>3 DEF GivesBack, Parts, HoldsTicket
    <2>2. \A l \in Ticket : tickets'[l] = tickets[l] \/ tickets'[l].state # "active"
      BY <2>1, ReleaseRows DEF Absent
    <2> QED
      BY <1>3, <2>2, <1>a DEF GivesBack, Parts, Moves
  <1>4. ASSUME NEW t \in Turn, Pays(t)
        PROVE  RealHolds'
    <2>1. turns[t].ticket \in Ticket
      BY <1>4 DEF Pays, Parts, HoldsTicket
    <2>2. \A l \in Ticket : tickets'[l] = tickets[l] \/ tickets'[l].state # "active"
      BY <1>4, <2>1, SettleRows DEF Pays, ledger
    <2> QED
      BY <1>4, <2>2, <1>a DEF Pays, Parts, Moves
  <1>5. ASSUME NEW k \in Ticket, Expire(k)
        PROVE  RealHolds'
    BY <1>5, <1>a, ExpireRows DEF Expire
  <1>6. CASE \/ Midnight \/ UNCHANGED vars
             \/ \E s, source \in Session : Branch(s, source)
             \/ \E s \in Session : Forget(s)
    BY <1>6, <1>a DEF Midnight, Branch, Forget, vars
  <1> QED
    BY <1>1, <1>2, <1>3, <1>4, <1>5, <1>6, ShapeOfStep DEF TurnShape

LEMMA InvariantStep == IInv /\ [Next]_vars => IInv'
  <1> SUFFICES ASSUME IInv, [Next]_vars
               PROVE  IInv'
    OBVIOUS
  <1> USE DEF IInv
  <1>1. TypeOK'
    BY TypeStep
  <1>2. HoldsTicket' /\ OwnTickets'
    BY TicketsKept
  <1>3. LedgerBalances' /\ \A s \in Session : sessionUsage[s] <= sessionUsage'[s]
    BY <1>1, BalanceKept
  <1>4. ChargedAsSettled'
    BY <1>1, ChargedKept
  <1>5. PriorKnown'
    BY <1>1, <1>3, PriorKept
  <1>6. RealHolds'
    BY HoldsKept
  <1> QED
    BY <1>1, <1>2, <1>3, <1>4, <1>5, <1>6

LEMMA Invariant == Spec => []IInv
  BY InvariantInit, InvariantStep, PTL DEF Spec

(* Type correctness of the ledger and of every scope.                      *)
THEOREM TypeCorrect == Spec => []TypeOK
  BY Invariant, PTL DEF IInv

(* session_usage is the sum of the settlements, and no more than what its  *)
(* session inherited above it, with throttling or without, through         *)
(* branches, refusals, expiries, lost releases, failed settlements and     *)
(* crashes.                                                                *)
THEOREM Balanced == Spec => []LedgerBalances
  BY Invariant, PTL DEF IInv

(* A turn's charged_tokens is what its settlements say, so reconciliation  *)
(* charges no call twice; only a turn that is over and was cancelled may   *)
(* count less.                                                             *)
THEOREM ChargedOnce == Spec => []ChargedAsSettled
  BY Invariant, PTL DEF IInv

-----------------------------------------------------------------------------
(* No reservation is stranded, if releases and settlements reach the       *)
(* ledger: the assumption excludes exactly LoseRelease and SettleFails.    *)
LEMMA StrandStep ==
    ASSUME Faults \subseteq {"crash"}, TypeOK, HoldsTicket, NoStrandedHold, [Next]_vars
    PROVE  NoStrandedHold'
  <1> DEFINE Goal == \A k \in Ticket : tickets'[k].state = "active"
                        => \E x \in Turn : turns'[x].ticket = k /\ Holder(x)'
  <1>a. SUFFICES Goal
    BY DEF NoStrandedHold
  <1>b. ASSUME NEW x \in Turn, turns'[x] = turns[x], Holder(x)
        PROVE  Holder(x)'
    BY <1>b DEF Holder
  <1>1. ASSUME NEW t \in Turn, Quiet(t)
        PROVE  Goal
    BY <1>1, <1>b DEF Quiet, Moves, NoStrandedHold
  <1>2. ASSUME NEW t \in Turn, TakesHold(t)
        PROVE  Goal
    <2>1. PICK k \in Ticket, n \in 1 .. MaxTokens, prior \in {0, turns[t].prior},
               requested \in 1 .. MaxTokens : /\ Reserve(t, k, requested, prior, n)
                                              /\ turns'[t].ticket = k
      BY <1>2 DEF TakesHold
    <2>2. Holder(t)' /\ ~Holder(t)
      BY <1>2 DEF TakesHold, HasTicket, Holder
    <2>3. ASSUME NEW l \in Ticket \ {k}, tickets'[l].state = "active"
          PROVE  \E x \in Turn : turns'[x].ticket = l /\ Holder(x)'
      <3>1. tickets[l].state = "active"
        BY <2>1, <2>3, ReserveRows DEF Absent
      <3>2. PICK x \in Turn : turns[x].ticket = l /\ Holder(x)
        BY <3>1 DEF NoStrandedHold
      <3>3. turns'[x] = turns[x]
        BY <1>2, <2>2, <3>2 DEF TakesHold, Moves
      <3> QED
        BY <3>2, <3>3, <1>b
    <2> QED
      BY <2>1, <2>2, <2>3
  <1>3. ASSUME NEW t \in Turn, Parts(t), tickets'[turns[t].ticket].state # "active",
               \A l \in Ticket : tickets'[l] = tickets[l] \/ l = turns[t].ticket
        PROVE  Goal
    <2> SUFFICES ASSUME NEW l \in Ticket, tickets'[l].state = "active"
                 PROVE  \E x \in Turn : turns'[x].ticket = l /\ Holder(x)'
      OBVIOUS
    <2>1. l # turns[t].ticket /\ tickets[l].state = "active"
      BY <1>3
    <2>2. PICK x \in Turn : turns[x].ticket = l /\ Holder(x)
      BY <2>1 DEF NoStrandedHold
    <2>3. turns'[x] = turns[x]
      BY <1>3, <2>1, <2>2 DEF Parts, Moves
    <2> QED
      BY <2>2, <2>3, <1>b
  <1>4. ASSUME NEW t \in Turn, GivesBack(t)
        PROVE  Goal
    <2>1. turns[t].ticket \in Ticket /\ Release(turns[t].ticket) /\ Parts(t)
      BY <1>4 DEF GivesBack, Parts, HoldsTicket
    <2> QED
      BY <2>1, <1>3, ReleaseRows
  <1>5. ASSUME NEW t \in Turn, Pays(t)
        PROVE  Goal
    <2>1. PICK k \in Ticket : k = turns[t].ticket
      BY <1>5 DEF Pays, Parts, HoldsTicket
    <2>2. PICK actual \in 0 .. MaxTokens : Settle(k, actual)
      BY <1>5, <2>1 DEF Pays
    <2>3. tickets'[k].state # "active"
      BY <2>2, SettleRows DEF ledger
    <2>4. \A l \in Ticket : tickets'[l] = tickets[l] \/ l = k
      BY <2>2, SettleRows
    <2> QED
      BY <1>5, <2>1, <2>3, <2>4, <1>3 DEF Pays
  <1>6. ASSUME NEW t \in Turn, Abandons(t)
        PROVE  Goal
    BY <1>6 DEF Abandons
  <1>7. ASSUME NEW k \in Ticket, Expire(k)
        PROVE  Goal
    BY <1>7, ExpireRows DEF Expire, NoStrandedHold, Holder
  <1>8. CASE \/ Midnight \/ UNCHANGED vars
             \/ \E s, source \in Session : Branch(s, source)
             \/ \E s \in Session : Forget(s)
    BY <1>8 DEF Midnight, Branch, Forget, vars, NoStrandedHold, Holder
  <1> QED
    BY <1>1, <1>2, <1>4, <1>5, <1>6, <1>7, <1>8, ShapeOfStep DEF TurnShape

(* A reservation is always some turn's to settle or release, or a crash's. *)
THEOREM NothingStranded ==
    ASSUME Faults \subseteq {"crash"}
    PROVE  Spec => []NoStrandedHold
  <1>1. Init => NoStrandedHold
    BY DEF Init, NoStrandedHold, Absent
  <1>2. IInv /\ NoStrandedHold /\ [Next]_vars => NoStrandedHold'
    BY StrandStep DEF IInv
  <1> QED
    BY <1>1, <1>2, Invariant, PTL DEF Spec

-----------------------------------------------------------------------------
(* The accounts, for any set A of sessions.                                *)

LEMMA HeldNow ==
    ASSUME TypeOK
    PROVE  \A A : Holding(tickets, A) \in [Ticket -> 0 .. MaxTokens]
  BY HoldingType DEF TypeOK, Rows

LEMMA HeldNext ==
    ASSUME TypeOK'
    PROVE  \A A : Holding(tickets', A) \in [Ticket -> 0 .. MaxTokens]
  BY HoldingType DEF TypeOK, Rows

(* A reservation adds its tokens to what the swept rows hold.              *)
AddsHold(A, s, k, n) ==
    /\ Holding(tickets, A)[k] = 0
    /\ \A x \in Ticket \ {k} :
          Holding(tickets', A)[x] \in {0, Holding(tickets, A)[x]}
    /\ Holding(tickets', A)[k] = IF s \in A THEN n ELSE 0
    /\ s \in A => Total(Holding(tickets', A), MaxTokens) = Held(Swept, A) + n

LEMMA ReserveHeld ==
    ASSUME TypeOK, TypeOK', NEW A, NEW t \in Turn, NEW k \in Ticket,
           NEW requested, NEW prior, NEW n \in 1 .. MaxTokens,
           Reserve(t, k, requested, prior, n), turns[t].hard = TRUE
    PROVE  AddsHold(A, turns[t].session, k, n)
  <1>1. Holding(tickets, A)[k] = 0 /\ Holding(Swept, A)[k] = 0
    BY ReserveRows DEF Holding, Swept, Absent
  <1>2. Holding(tickets', A)[k] = IF turns[t].session \in A THEN n ELSE 0
    BY ReserveRows DEF Holding
  <1>3. \A x \in Ticket \ {k} : Holding(tickets', A)[x] = Holding(Swept, A)[x]
    BY ReserveRows DEF Holding
  <1>4. \A x \in Ticket \ {k} :
            Holding(tickets', A)[x] \in {0, Holding(tickets, A)[x]}
    BY ReserveRows DEF Holding, Absent
  <1>5. /\ Holding(Swept, A) \in [Ticket -> 0 .. MaxTokens]
        /\ Holding(tickets', A) \in [Ticket -> 0 .. MaxTokens]
    BY SweptType, HoldingType, HeldNext
  <1>6. Total(Holding(tickets', A), MaxTokens) + Holding(Swept, A)[k]
           = Total(Holding(Swept, A), MaxTokens) + Holding(tickets', A)[k]
    BY <1>3, <1>5, TotalChange, Bounds, BudgetAssumption
  <1>7. /\ Total(Holding(Swept, A), MaxTokens) \in Nat
        /\ Total(Holding(tickets', A), MaxTokens) \in Nat
    BY <1>5, TokensFinite, Bounds, BudgetAssumption
  <1>8. turns[t].session \in A =>
            Total(Holding(tickets', A), MaxTokens) = Held(Swept, A) + n
    BY <1>1, <1>2, <1>6, <1>7 DEF Held
  <1> QED
    BY <1>1, <1>2, <1>4, <1>8 DEF AddsHold

(* Nothing but a reservation adds to what is held.                         *)
LEMMA OtherwiseHeld ==
    ASSUME TypeOK, NEW A,
           \A k \in Ticket : \/ tickets'[k] = tickets[k]
                             \/ tickets'[k].state # "active"
                             \/ /\ tickets[k].state = "active"
                                /\ tickets'[k].session = tickets[k].session
                                /\ tickets'[k].reserved = tickets[k].reserved
                                /\ tickets'[k].hard = tickets[k].hard
    PROVE  \A x \in Ticket : Holding(tickets', A)[x] \in {0, Holding(tickets, A)[x]}
  BY DEF Holding

(* A charge takes its hold away, and overdraws when it exceeds it.         *)
LEMMA SettleHeld ==
    ASSUME TypeOK, RealHolds, Throttles = {TRUE}, NEW A, NEW k \in Ticket,
           NEW actual \in 0 .. MaxTokens, Settle(k, actual),
           tickets[k].state = "active", tickets[k].session \in A
    PROVE  /\ Holding(tickets, A)[k] > 0
           /\ Holding(tickets', A) = [Holding(tickets, A) EXCEPT ![k] = 0]
           /\ Overran(A)' <=> (Overran(A) \/ actual > Holding(tickets, A)[k])
  <1>1. /\ tickets[k].reserved \in Nat /\ tickets[k].reserved > 0
        /\ tickets[k].hard = TRUE /\ actual \in Nat
    BY SettleRows, Bounds DEF RealHolds, TicketRow
  <1>2. Holding(tickets, A)[k] = tickets[k].reserved
    BY <1>1 DEF Holding
  <1>3. Holding(tickets', A) = [Holding(tickets, A) EXCEPT ![k] = 0]
    <2>1. \A x \in Ticket \ {k} : tickets'[x] = tickets[x]
      BY SettleRows
    <2>2. tickets'[k].state = "settled"
      BY SettleRows
    <2>3. \A x \in Ticket : Holding(tickets', A)[x]
                                = [Holding(tickets, A) EXCEPT ![k] = 0][x]
      BY <2>1, <2>2 DEF Holding
    <2> QED
      BY <2>3 DEF Holding
  <1>4. tickets'[k].overrun > 0 <=> actual > tickets[k].reserved
    BY <1>1, SettleRows DEF Overrun, Monus
  <1>5. \A x \in Ticket \ {k} : tickets'[x] = tickets[x]
    BY SettleRows
  <1>6. tickets'[k].state = "settled" /\ tickets'[k].session \in A
    BY SettleRows
  <1>7. Overran(A)' <=> (Overran(A) \/ tickets'[k].overrun > 0)
    BY <1>5, <1>6 DEF Overran
  <1> QED
    BY <1>1, <1>2, <1>3, <1>4, <1>7

(* What a step does to the books: give holds back, or one transaction.     *)
Shrinks(A) ==
    /\ \A x \in Ticket : Holding(tickets', A)[x] \in {0, Holding(tickets, A)[x]}
    /\ Overran(A)' = Overran(A)

Reserving ==
    \E t \in Turn, k \in Ticket, requested \in 1 .. MaxTokens, n \in 1 .. MaxTokens :
        \E prior \in {0, turns[t].prior} : Reserve(t, k, requested, prior, n)

Settling ==
    \E k \in Ticket, actual \in 0 .. MaxTokens :
        tickets[k].state = "active" /\ Settle(k, actual)

LEMMA BookStep ==
    ASSUME IInv, [Next]_vars
    PROVE  \/ UNCHANGED <<sessionUsage, dailyUsage, inherited>> /\ \A A : Shrinks(A)
           \/ Reserving
           \/ Settling
           \/ Midnight
           \/ \E s, source \in Session : Branch(s, source)
  <1> USE DEF IInv
  <1>1. ASSUME UNCHANGED <<tickets, sessionUsage, dailyUsage, inherited>>
        PROVE  UNCHANGED <<sessionUsage, dailyUsage, inherited>> /\ \A A : Shrinks(A)
    BY <1>1 DEF Shrinks, Overran, Holding
  <1>2. ASSUME NEW t \in Turn, TakesHold(t)
        PROVE  Reserving
    BY <1>2 DEF TakesHold, Reserving
  <1>3. ASSUME NEW t \in Turn, GivesBack(t)
        PROVE  UNCHANGED <<sessionUsage, dailyUsage, inherited>> /\ \A A : Shrinks(A)
    <2>1. PICK k \in Ticket : k = turns[t].ticket
      BY <1>3 DEF GivesBack, Parts, HoldsTicket
    <2>2. Release(k)
      BY <1>3, <2>1 DEF GivesBack
    <2>3. \A A : \A x \in Ticket :
              Holding(tickets', A)[x] \in {0, Holding(tickets, A)[x]}
      BY <2>2, ReleaseRows, OtherwiseHeld
    <2>4. \A A : Overran(A)' = Overran(A)
      BY <2>2, ReleaseSettlements, SameSums
    <2> QED
      BY <2>2, <2>3, <2>4 DEF Shrinks, Release
  <1>4. ASSUME NEW t \in Turn, Pays(t)
        PROVE  \/ Settling
               \/ UNCHANGED <<sessionUsage, dailyUsage, inherited>> /\ \A A : Shrinks(A)
    <2>1. PICK k \in Ticket : k = turns[t].ticket
      BY <1>4 DEF Pays, Parts, HoldsTicket
    <2>2. PICK actual \in 0 .. MaxTokens : Settle(k, actual)
      BY <1>4, <2>1 DEF Pays
    <2>3. CASE tickets[k].state = "active"
      BY <2>2, <2>3 DEF Settling
    <2>4. CASE tickets[k].state # "active"
      BY <2>2, <2>4, <1>1, SettleRows DEF ledger, Settle
    <2> QED
      BY <2>3, <2>4
  <1>5. ASSUME NEW k \in Ticket, Expire(k)
        PROVE  UNCHANGED <<sessionUsage, dailyUsage, inherited>> /\ \A A : Shrinks(A)
    <2>1. \A A : \A x \in Ticket :
              Holding(tickets', A)[x] \in {0, Holding(tickets, A)[x]}
      BY <1>5, ExpireRows, OtherwiseHeld
    <2>2. \A A : Overran(A)' = Overran(A)
      BY <1>5, ExpireSettlements, SameSums
    <2> QED
      BY <1>5, <2>1, <2>2 DEF Shrinks, Expire
  <1>6. ASSUME NEW t \in Turn, Quiet(t) \/ Abandons(t)
        PROVE  UNCHANGED <<tickets, sessionUsage, dailyUsage, inherited>>
    BY <1>6 DEF Quiet, Abandons
  <1>7. UNCHANGED vars => UNCHANGED <<tickets, sessionUsage, dailyUsage, inherited>>
    BY DEF vars
  <1>8. (\E s \in Session : Forget(s)) =>
            UNCHANGED <<tickets, sessionUsage, dailyUsage, inherited>>
    BY DEF Forget
  <1> QED
    BY <1>8, <1>1, <1>2, <1>3, <1>4, <1>5, <1>6, <1>7, ShapeOfStep DEF TurnShape

(* A charge to another session leaves these sessions alone.                *)
LEMMA SettleElsewhere ==
    ASSUME TypeOK, NEW A, NEW k \in Ticket, NEW actual \in 0 .. MaxTokens,
           Settle(k, actual), tickets[k].state = "active", tickets[k].session \notin A
    PROVE  Shrinks(A)
  <1>1. /\ \A x \in Ticket \ {k} : tickets'[x] = tickets[x]
        /\ tickets'[k].state = "settled" /\ tickets'[k].session \notin A
    BY SettleRows
  <1>2. \A x \in Ticket : Holding(tickets', A)[x] \in {0, Holding(tickets, A)[x]}
    BY <1>1 DEF Holding
  <1>3. Overran(A)' = Overran(A)
    BY <1>1 DEF Overran
  <1> QED
    BY <1>2, <1>3 DEF Shrinks

(* What Grantable grants stays within every room it looks at.              *)
LEMMA GrantFits ==
    ASSUME NEW budget \in Nat, NEW used \in Nat, NEW n \in 1 .. MaxTokens,
           n <= Monus(budget, used)
    PROVE  used + n <= budget
  BY Bounds DEF Monus

LEMMA ReserveUses ==
    ASSUME IInv, NEW t \in Turn, NEW k \in Ticket, NEW requested,
           NEW prior \in {0, turns[t].prior}, NEW n \in 1 .. MaxTokens,
           Reserve(t, k, requested, prior, n)
    PROVE  LET s == turns[t].session
           IN  /\ s \in Session
               /\ \/ sessionUsage'[s] = sessionUsage[s]
                  \/ sessionUsage'[s] = inherited[s] /\ sessionUsage[s] < inherited[s]
               /\ sessionUsage'[s] = Used(s, prior)
               /\ \A x \in Session \ {s} : sessionUsage'[x] = sessionUsage[x]
               /\ UNCHANGED <<dailyUsage, inherited>>
  <1>1. PICK s \in Session : s = turns[t].session
    BY DEF IInv, TypeOK, TurnState
  <1>2. /\ sessionUsage' = [sessionUsage EXCEPT ![s] = Used(s, prior)]
        /\ UNCHANGED <<dailyUsage, inherited>>
    BY <1>1 DEF Reserve
  <1>3. /\ sessionUsage'[s] = Used(s, prior)
        /\ \A x \in Session \ {s} : sessionUsage'[x] = sessionUsage[x]
    BY <1>2 DEF IInv, TypeOK
  <1>4. \/ Used(s, prior) = sessionUsage[s]
        \/ Used(s, prior) = inherited[s] /\ sessionUsage[s] < inherited[s]
    BY <1>1, RaisedTo DEF IInv
  <1> QED
    BY <1>1, <1>2, <1>3, <1>4

(* Every step of the ledger is a step of each session's account.           *)
LEMMA SessionStep ==
    ASSUME Throttles = {TRUE}, SessionBudget > 0, IInv, [Next]_vars,
           NEW s \in Session
    PROVE  SessionAccount(s)!Step
  <1> USE DEF IInv
  <1>a. /\ TypeOK' /\ Holding(tickets', {s}) \in [Ticket -> 0 .. MaxTokens]
        /\ Holding(tickets, {s}) \in [Ticket -> 0 .. MaxTokens]
    BY InvariantStep, HeldNow, HeldNext
  <1>b. ASSUME Shrinks({s}), sessionUsage'[s] = sessionUsage[s],
               inherited'[s] = inherited[s]
        PROVE  SessionAccount(s)!Return
    BY <1>a, <1>b DEF Shrinks, SessionAccount!Return, SessionAccount!Keeps
  <1>1. CASE UNCHANGED <<sessionUsage, dailyUsage, inherited>> /\ \A A : Shrinks(A)
    BY <1>1, <1>b DEF SessionAccount!Step, SessionAccount!Next
  <1>2. CASE Reserving
    <2>1. PICK t \in Turn, k \in Ticket, requested \in 1 .. MaxTokens, n \in 1 .. MaxTokens :
              \E prior \in {0, turns[t].prior} : Reserve(t, k, requested, prior, n)
      BY <1>2 DEF Reserving
    <2>2. PICK prior \in {0, turns[t].prior} : Reserve(t, k, requested, prior, n)
      BY <2>1
    <2>3. turns[t].hard = TRUE
      BY DEF RealHolds
    <2>4. /\ turns[t].session \in Session
          /\ LET home == turns[t].session
             IN  /\ \/ sessionUsage'[home] = sessionUsage[home]
                    \/ /\ sessionUsage'[home] = inherited[home]
                       /\ sessionUsage[home] < inherited[home]
                 /\ sessionUsage'[home] = Used(home, prior)
                 /\ \A x \in Session \ {home} : sessionUsage'[x] = sessionUsage[x]
          /\ inherited'[s] = inherited[s]
      BY <2>2, ReserveUses
    <2>5. Overran({s})' = Overran({s})
      BY <2>2, ReserveSettlements, SameSums
    <2>a. AddsHold({s}, turns[t].session, k, n)
      BY <1>a, <2>2, <2>3, ReserveHeld
    <2>6. /\ Holding(tickets, {s})[k] = 0
          /\ \A x \in Ticket \ {k} :
                Holding(tickets', {s})[x] \in {0, Holding(tickets, {s})[x]}
          /\ Holding(tickets', {s})[k] = IF turns[t].session \in {s} THEN n ELSE 0
          /\ turns[t].session \in {s} =>
                Total(Holding(tickets', {s}), MaxTokens) = Held(Swept, {s}) + n
      BY <2>a DEF AddsHold
    <2>7. CASE turns[t].session = s
      <3>1. Monus(SessionBudget, sessionUsage'[s] + Held(Swept, {s}))
                \in Room(turns[t].session, prior)
        BY <2>4, <2>7 DEF Room
      <3>2. n <= Monus(SessionBudget, sessionUsage'[s] + Held(Swept, {s}))
        BY <2>2, <2>3, <3>1 DEF Reserve, Grantable
      <3>3. sessionUsage'[s] \in Nat /\ Held(Swept, {s}) \in Nat /\ SessionBudget \in Nat
        BY <1>a, HeldType, SweptType, BudgetAssumption DEF TypeOK
      <3>4. (sessionUsage'[s] + Held(Swept, {s})) + n <= SessionBudget
        BY <3>2, <3>3, GrantFits
      <3>5. sessionUsage'[s] + Total(Holding(tickets', {s}), MaxTokens) <= SessionBudget
        BY <2>4, <2>6, <2>7, <3>3, <3>4, Bounds
      <3>6. Holding(tickets', {s})[k] > 0
        BY <2>6, <2>7
      <3>7. SessionAccount(s)!Total(Holding(tickets', {s}), MaxTokens)
               = Total(Holding(tickets', {s}), MaxTokens)
        BY DEF SessionAccount!Total, SessionAccount!Tokens, SessionAccount!Cardinality,
               Total, Tokens, Cardinality
      <3>8. SessionAccount(s)!Keeps(Ticket \ {k})
        BY <1>a, <2>6 DEF SessionAccount!Keeps
      <3>9. SessionAccount(s)!Admit(k)
        BY <2>4, <2>5, <2>6, <2>7, <3>5, <3>6, <3>7, <3>8 DEF SessionAccount!Admit
      <3> QED
        BY <3>9 DEF SessionAccount!Step, SessionAccount!Next
    <2>8. CASE turns[t].session # s
      <3>1. Shrinks({s})
        BY <2>5, <2>6, <2>8 DEF Shrinks
      <3> QED
        BY <2>4, <2>8, <3>1, <1>b DEF SessionAccount!Step, SessionAccount!Next
    <2> QED
      BY <2>7, <2>8
  <1>3. CASE Settling
    <2>1. PICK k \in Ticket, actual \in 0 .. MaxTokens :
              tickets[k].state = "active" /\ Settle(k, actual)
      BY <1>3 DEF Settling
    <2>2. /\ tickets[k].session \in Session
          /\ sessionUsage' = [sessionUsage EXCEPT ![tickets[k].session] = @ + actual]
      BY <2>1, SettleRows DEF TicketRow
    <2>a. inherited'[s] = inherited[s]
      BY <2>1 DEF Settle
    <2>3. CASE tickets[k].session = s
      <3>1. /\ Holding(tickets, {s})[k] > 0
            /\ Holding(tickets', {s}) = [Holding(tickets, {s}) EXCEPT ![k] = 0]
            /\ Overran({s})' <=> (Overran({s}) \/ actual > Holding(tickets, {s})[k])
        BY <2>1, <2>3, SettleHeld
      <3>2. sessionUsage'[s] = sessionUsage[s] + actual
        BY <2>2, <2>3 DEF TypeOK
      <3>3. Overran({s})' = (Overran({s}) \/ actual > Holding(tickets, {s})[k])
        BY <3>1 DEF Overran
      <3>4. SessionAccount(s)!Charge(k, actual)
        BY <2>a, <3>1, <3>2, <3>3 DEF SessionAccount!Charge
      <3> QED
        BY <3>4 DEF SessionAccount!Step, SessionAccount!Next
    <2>4. CASE tickets[k].session # s
      <3>1. Shrinks({s})
        BY <2>1, <2>4, SettleElsewhere
      <3>2. sessionUsage'[s] = sessionUsage[s]
        BY <2>2, <2>4 DEF TypeOK
      <3> QED
        BY <2>a, <3>1, <3>2, <1>b DEF SessionAccount!Step, SessionAccount!Next
    <2> QED
      BY <2>3, <2>4
  <1>4. CASE Midnight
    <2>1. /\ Shrinks({s}) /\ sessionUsage'[s] = sessionUsage[s]
          /\ inherited'[s] = inherited[s]
      BY <1>4 DEF Midnight, Shrinks, Holding, Overran
    <2> QED
      BY <2>1, <1>b DEF SessionAccount!Step, SessionAccount!Next
  <1>5. ASSUME NEW x \in Session, NEW source \in Session, Branch(x, source)
        PROVE  SessionAccount(s)!Step
    <2>1. UNCHANGED <<sessionUsage, Holding(tickets, {s}), Overran({s})>>
      BY <1>5 DEF Branch, Holding, Overran
    <2>2. CASE x = s
      <3>1. /\ sessionUsage[s] = 0 /\ inherited[s] = 0
            /\ inherited'[s] \in Nat
        BY <1>a, <1>5, <2>2 DEF Branch, TypeOK
      <3>2. SessionAccount(s)!Inherit
        BY <2>1, <3>1 DEF SessionAccount!Inherit
      <3> QED
        BY <3>2 DEF SessionAccount!Step, SessionAccount!Next
    <2>3. CASE x # s
      <3>1. inherited'[s] = inherited[s]
        BY <1>5, <2>3 DEF Branch, TypeOK
      <3> QED
        BY <2>1, <3>1 DEF SessionAccount!Step, SessionAccount!accountVars
    <2> QED
      BY <2>2, <2>3
  <1> QED
    BY <1>1, <1>2, <1>3, <1>4, <1>5, BookStep

(* Every step of the ledger is a step of each user's account, and midnight  *)
(* reopens it.                                                             *)
LEMMA DailyStep ==
    ASSUME Throttles = {TRUE}, DailyBudget > 0, IInv, [Next]_vars,
           NEW u \in User
    PROVE  DailyAccount(u)!Step
  <1> DEFINE Own == SessionsOf(u)
  <1> USE DEF IInv
  <1>a. /\ TypeOK' /\ Holding(tickets', Own) \in [Ticket -> 0 .. MaxTokens]
        /\ Holding(tickets, Own) \in [Ticket -> 0 .. MaxTokens]
    BY InvariantStep, HeldNow, HeldNext
  <1>b. ASSUME Shrinks(Own), dailyUsage'[u] = dailyUsage[u]
        PROVE  DailyAccount(u)!Return
    BY <1>a, <1>b DEF Shrinks, DailyAccount!Return, DailyAccount!Keeps
  <1>1. CASE UNCHANGED <<sessionUsage, dailyUsage, inherited>> /\ \A A : Shrinks(A)
    BY <1>1, <1>b DEF DailyAccount!Step, DailyAccount!Next
  <1>2. CASE Reserving
    <2>1. PICK t \in Turn, k \in Ticket, requested \in 1 .. MaxTokens, n \in 1 .. MaxTokens :
              \E prior \in {0, turns[t].prior} : Reserve(t, k, requested, prior, n)
      BY <1>2 DEF Reserving
    <2>2. PICK prior \in {0, turns[t].prior} : Reserve(t, k, requested, prior, n)
      BY <2>1
    <2>3. turns[t].hard = TRUE
      BY DEF RealHolds
    <2>4. UNCHANGED dailyUsage
      BY <2>2, ReserveUses
    <2>5. Overran(Own)' = Overran(Own)
      BY <2>2, ReserveSettlements, SameSums
    <2>a. AddsHold(Own, turns[t].session, k, n)
      BY <1>a, <2>2, <2>3, ReserveHeld
    <2>6. /\ Holding(tickets, Own)[k] = 0
          /\ \A x \in Ticket \ {k} :
                Holding(tickets', Own)[x] \in {0, Holding(tickets, Own)[x]}
          /\ Holding(tickets', Own)[k] = IF turns[t].session \in Own THEN n ELSE 0
          /\ turns[t].session \in Own =>
                Total(Holding(tickets', Own), MaxTokens) = Held(Swept, Own) + n
      BY <2>a DEF AddsHold
    <2>7. CASE turns[t].session \in Own
      <3>0. Owner[turns[t].session] = u
        BY <2>7 DEF SessionsOf
      <3>1. Monus(DailyBudget, dailyUsage[u] + Held(Swept, Own))
                \in Room(turns[t].session, prior)
        BY <3>0 DEF Room
      <3>2. n <= Monus(DailyBudget, dailyUsage[u] + Held(Swept, Own))
        BY <2>2, <2>3, <3>1 DEF Reserve, Grantable
      <3>3. dailyUsage[u] \in Nat /\ Held(Swept, Own) \in Nat /\ DailyBudget \in Nat
        BY HeldType, SweptType, BudgetAssumption DEF TypeOK
      <3>4. (dailyUsage[u] + Held(Swept, Own)) + n <= DailyBudget
        BY <3>2, <3>3, GrantFits
      <3>5. dailyUsage'[u] + Total(Holding(tickets', Own), MaxTokens) <= DailyBudget
        BY <2>4, <2>6, <2>7, <3>3, <3>4, Bounds
      <3>6. Holding(tickets', Own)[k] > 0
        BY <2>6, <2>7
      <3>7. DailyAccount(u)!Total(Holding(tickets', Own), MaxTokens)
               = Total(Holding(tickets', Own), MaxTokens)
        BY DEF DailyAccount!Total, DailyAccount!Tokens, DailyAccount!Cardinality,
               Total, Tokens, Cardinality
      <3>8. DailyAccount(u)!Keeps(Ticket \ {k})
        BY <1>a, <2>6 DEF DailyAccount!Keeps
      <3>9. DailyAccount(u)!Admit(k)
        BY <2>4, <2>5, <2>6, <3>5, <3>6, <3>7, <3>8 DEF DailyAccount!Admit
      <3> QED
        BY <3>9 DEF DailyAccount!Step, DailyAccount!Next
    <2>8. CASE turns[t].session \notin Own
      <3>1. Shrinks(Own)
        BY <2>5, <2>6, <2>8 DEF Shrinks
      <3> QED
        BY <2>4, <3>1, <1>b DEF DailyAccount!Step, DailyAccount!Next
    <2> QED
      BY <2>7, <2>8
  <1>3. CASE Settling
    <2>1. PICK k \in Ticket, actual \in 0 .. MaxTokens :
              tickets[k].state = "active" /\ Settle(k, actual)
      BY <1>3 DEF Settling
    <2>2. /\ tickets[k].session \in Session
          /\ dailyUsage' = [dailyUsage EXCEPT ![Owner[tickets[k].session]] = @ + actual]
      BY <2>1, SettleRows DEF TicketRow
    <2>3. CASE tickets[k].session \in Own
      <3>1. /\ Holding(tickets, Own)[k] > 0
            /\ Holding(tickets', Own) = [Holding(tickets, Own) EXCEPT ![k] = 0]
            /\ Overran(Own)' <=> (Overran(Own) \/ actual > Holding(tickets, Own)[k])
        BY <2>1, <2>3, SettleHeld
      <3>2. dailyUsage'[u] = dailyUsage[u] + actual
        BY <2>2, <2>3 DEF TypeOK, SessionsOf
      <3>3. Overran(Own)' = (Overran(Own) \/ actual > Holding(tickets, Own)[k])
        BY <3>1 DEF Overran
      <3>4. DailyAccount(u)!Charge(k, actual)
        BY <3>1, <3>2, <3>3 DEF DailyAccount!Charge
      <3> QED
        BY <3>4 DEF DailyAccount!Step, DailyAccount!Next
    <2>4. CASE tickets[k].session \notin Own
      <3>1. Shrinks(Own)
        BY <2>1, <2>4, SettleElsewhere
      <3>2. dailyUsage'[u] = dailyUsage[u]
        BY <2>2, <2>4, BudgetAssumption DEF TypeOK, SessionsOf
      <3> QED
        BY <3>1, <3>2, <1>b DEF DailyAccount!Step, DailyAccount!Next
    <2> QED
      BY <2>3, <2>4
  <1>4. CASE Midnight
    <2>1. UNCHANGED tickets /\ dailyUsage'[u] = 0
      BY <1>4 DEF Midnight
    <2>2. UNCHANGED <<Holding(tickets, Own), Overran(Own)>>
      BY <2>1 DEF Holding, Overran
    <2>3. DailyAccount(u)!Reopen
      BY <2>1, <2>2 DEF DailyAccount!Reopen
    <2> QED
      BY <2>3 DEF DailyAccount!Step, DailyAccount!Next
  <1>5. ASSUME NEW x \in Session, NEW source \in Session, Branch(x, source)
        PROVE  DailyAccount(u)!Step
    BY <1>5 DEF Branch, Holding, Overran, DailyAccount!Step, DailyAccount!accountVars
  <1> QED
    BY <1>1, <1>2, <1>3, <1>4, <1>5, BookStep

LEMMA NothingHeld ==
    ASSUME Init, NEW A
    PROVE  /\ Holding(tickets, A) = [k \in Ticket |-> 0]
           /\ Overran(A) = FALSE
           /\ Total(Holding(tickets, A), MaxTokens) = 0
  <1>1. Holding(tickets, A) = [k \in Ticket |-> 0]
    BY DEF Init, Holding, Absent
  <1>2. Overran(A) = FALSE
    BY DEF Init, Overran, Absent
  <1>3. Total(Holding(tickets, A), MaxTokens) = 0
    BY <1>1, TotalZero, Bounds, BudgetAssumption
  <1> QED
    BY <1>1, <1>2, <1>3

(* With throttling on and a session budget configured, the ledger keeps an *)
(* account of each session, whatever turns, leases, branches and crashes   *)
(* do: what a branch inherited is counted by an admission, within the      *)
(* budget.                                                                 *)
THEOREM SessionAccounts ==
    ASSUME Throttles = {TRUE}, SessionBudget > 0
    PROVE  Spec => SessionAccountKept
  <1>1. Init => \A s \in Session : SessionAccount(s)!Init
    BY NothingHeld DEF Init, SessionAccount!Init
  <1>2. IInv /\ [Next]_vars => [\A s \in Session : SessionAccount(s)!Step]_vars
    BY SessionStep
  <1> QED
    BY <1>1, <1>2, Invariant, PTL DEF Spec, SessionAccountKept

(* With throttling on and a daily budget configured, the ledger keeps an   *)
(* account of each user, which midnight reopens.                           *)
THEOREM DailyAccounts ==
    ASSUME Throttles = {TRUE}, DailyBudget > 0
    PROVE  Spec => DailyAccountKept
  <1>1. Init => \A u \in User : DailyAccount(u)!Init
    BY NothingHeld DEF Init, DailyAccount!Init
  <1>2. IInv /\ [Next]_vars => [\A u \in User : DailyAccount(u)!Step]_vars
    BY DailyStep
  <1> QED
    BY <1>1, <1>2, Invariant, PTL DEF Spec, DailyAccountKept

-----------------------------------------------------------------------------
(* An account that takes only an account's steps stays within its limit.   *)

LEMMA LimitKept ==
    ASSUME NEW limit \in Nat, NEW spent \in Nat, NEW spent2 \in Nat,
           NEW held \in [Ticket -> 0 .. MaxTokens],
           NEW held2 \in [Ticket -> 0 .. MaxTokens],
           NEW over \in BOOLEAN, NEW over2 \in BOOLEAN,
           over \/ spent + Total(held, MaxTokens) <= limit,
           \/ over2 = over /\ spent2 + Total(held2, MaxTokens) <= limit
           \/ /\ over2 = over /\ (spent2 = spent \/ spent2 = 0)
              /\ \A x \in Ticket : held2[x] \in {0, held[x]}
           \/ \E g \in Ticket, n \in 0 .. MaxTokens :
                 /\ spent2 = spent + n
                 /\ held2 = [held EXCEPT ![g] = 0]
                 /\ over2 = (over \/ n > held[g])
    PROVE  over2 \/ spent2 + Total(held2, MaxTokens) <= limit
  BY LimitOfAccount, BudgetAssumption

(* What is spent and held together stays within the session budget, until  *)
(* a provider uses more than it was allowed.                               *)
THEOREM SessionLimit ==
    ASSUME Throttles = {TRUE}, SessionBudget > 0
    PROVE  Spec => []WithinSessionBudget
  <1>1. Init => WithinSessionBudget
    <2> SUFFICES ASSUME Init, NEW s \in Session
                 PROVE  sessionUsage[s] + Held(tickets, {s}) <= SessionBudget
      BY DEF WithinSessionBudget
    <2>1. sessionUsage[s] = 0 /\ Held(tickets, {s}) = 0
      BY NothingHeld DEF Init, Held
    <2> QED
      BY <2>1, BudgetAssumption
  <1>2. ASSUME IInv, WithinSessionBudget, [Next]_vars
        PROVE  WithinSessionBudget'
    <2> SUFFICES ASSUME NEW s \in Session
                 PROVE  (Overran({s}) \/ sessionUsage[s] + Held(tickets, {s})
                                            <= SessionBudget)'
      BY DEF WithinSessionBudget
    <2>1. SessionAccount(s)!Step
      BY <1>2, SessionStep
    <2>2. /\ Holding(tickets, {s}) \in [Ticket -> 0 .. MaxTokens]
          /\ Holding(tickets', {s}) \in [Ticket -> 0 .. MaxTokens]
          /\ sessionUsage[s] \in Nat /\ sessionUsage'[s] \in Nat
      BY <1>2, InvariantStep, HeldNow, HeldNext DEF IInv, TypeOK
    <2>3. Overran({s}) \in BOOLEAN /\ Overran({s})' \in BOOLEAN
      BY DEF Overran
    <2>4. \/ /\ Overran({s})' = Overran({s})
             /\ sessionUsage'[s] + Total(Holding(tickets', {s}), MaxTokens) <= SessionBudget
          \/ /\ Overran({s})' = Overran({s})
             /\ sessionUsage'[s] = sessionUsage[s] \/ sessionUsage'[s] = 0
             /\ \A x \in Ticket :
                   Holding(tickets', {s})[x] \in {0, Holding(tickets, {s})[x]}
          \/ \E g \in Ticket, n \in 0 .. MaxTokens :
                /\ sessionUsage'[s] = sessionUsage[s] + n
                /\ Holding(tickets', {s}) = [Holding(tickets, {s}) EXCEPT ![g] = 0]
                /\ Overran({s})' = (Overran({s}) \/ n > Holding(tickets, {s})[g])
      <3>1. SessionAccount(s)!Total(Holding(tickets', {s}), MaxTokens)
               = Total(Holding(tickets', {s}), MaxTokens)
        BY DEF SessionAccount!Total, SessionAccount!Tokens, SessionAccount!Cardinality,
               Total, Tokens, Cardinality
      <3>2. ASSUME NEW g \in Ticket, SessionAccount(s)!Admit(g)
            PROVE  /\ Overran({s})' = Overran({s})
                   /\ sessionUsage'[s] + Total(Holding(tickets', {s}), MaxTokens)
                         <= SessionBudget
        BY <3>1, <3>2 DEF SessionAccount!Admit
      <3> QED
        BY <2>1, <2>2, <3>2
           DEF SessionAccount!Step, SessionAccount!Next, SessionAccount!Return,
               SessionAccount!Keeps, SessionAccount!Charge, SessionAccount!Reopen,
               SessionAccount!Inherit, SessionAccount!accountVars
    <2> QED
      BY <1>2, <2>2, <2>3, <2>4, LimitKept, BudgetAssumption
         DEF WithinSessionBudget, Held
  <1> QED
    BY <1>1, <1>2, Invariant, PTL DEF Spec

(* What is spent and held together stays within the daily budget, until    *)
(* a provider uses more than it was allowed.                               *)
THEOREM DailyLimit ==
    ASSUME Throttles = {TRUE}, DailyBudget > 0
    PROVE  Spec => []WithinDailyBudget
  <1>1. Init => WithinDailyBudget
    <2> SUFFICES ASSUME Init, NEW u \in User
                 PROVE  dailyUsage[u] + Held(tickets, SessionsOf(u)) <= DailyBudget
      BY DEF WithinDailyBudget
    <2>1. dailyUsage[u] = 0 /\ Held(tickets, SessionsOf(u)) = 0
      BY NothingHeld DEF Init, Held
    <2> QED
      BY <2>1, BudgetAssumption
  <1>2. ASSUME IInv, WithinDailyBudget, [Next]_vars
        PROVE  WithinDailyBudget'
    <2> SUFFICES ASSUME NEW u \in User
                 PROVE  (\/ Overran(SessionsOf(u))
                         \/ dailyUsage[u] + Held(tickets, SessionsOf(u)) <= DailyBudget)'
      BY DEF WithinDailyBudget
    <2>1. DailyAccount(u)!Step
      BY <1>2, DailyStep
    <2>2. /\ Holding(tickets, SessionsOf(u)) \in [Ticket -> 0 .. MaxTokens]
          /\ Holding(tickets', SessionsOf(u)) \in [Ticket -> 0 .. MaxTokens]
          /\ dailyUsage[u] \in Nat /\ dailyUsage'[u] \in Nat
      BY <1>2, InvariantStep, HeldNow, HeldNext DEF IInv, TypeOK
    <2>3. Overran(SessionsOf(u)) \in BOOLEAN /\ Overran(SessionsOf(u))' \in BOOLEAN
      BY DEF Overran
    <2>4. \/ /\ Overran(SessionsOf(u))' = Overran(SessionsOf(u))
             /\ dailyUsage'[u] + Total(Holding(tickets', SessionsOf(u)), MaxTokens)
                   <= DailyBudget
          \/ /\ Overran(SessionsOf(u))' = Overran(SessionsOf(u))
             /\ dailyUsage'[u] = dailyUsage[u] \/ dailyUsage'[u] = 0
             /\ \A x \in Ticket :
                   Holding(tickets', SessionsOf(u))[x]
                      \in {0, Holding(tickets, SessionsOf(u))[x]}
          \/ \E g \in Ticket, n \in 0 .. MaxTokens :
                /\ dailyUsage'[u] = dailyUsage[u] + n
                /\ Holding(tickets', SessionsOf(u))
                      = [Holding(tickets, SessionsOf(u)) EXCEPT ![g] = 0]
                /\ Overran(SessionsOf(u))'
                      = (Overran(SessionsOf(u)) \/ n > Holding(tickets, SessionsOf(u))[g])
      <3>1. DailyAccount(u)!Total(Holding(tickets', SessionsOf(u)), MaxTokens)
               = Total(Holding(tickets', SessionsOf(u)), MaxTokens)
        BY DEF DailyAccount!Total, DailyAccount!Tokens, DailyAccount!Cardinality,
               Total, Tokens, Cardinality
      <3>2. ASSUME NEW g \in Ticket, DailyAccount(u)!Admit(g)
            PROVE  /\ Overran(SessionsOf(u))' = Overran(SessionsOf(u))
                   /\ dailyUsage'[u] + Total(Holding(tickets', SessionsOf(u)), MaxTokens)
                         <= DailyBudget
        BY <3>1, <3>2 DEF DailyAccount!Admit
      <3> QED
        BY <2>1, <2>2, <3>2
           DEF DailyAccount!Step, DailyAccount!Next, DailyAccount!Return,
               DailyAccount!Keeps, DailyAccount!Charge, DailyAccount!Reopen,
               DailyAccount!Inherit, DailyAccount!accountVars
    <2> QED
      BY <1>2, <2>2, <2>3, <2>4, LimitKept, BudgetAssumption
         DEF WithinDailyBudget, Held
  <1> QED
    BY <1>1, <1>2, Invariant, PTL DEF Spec
=============================================================================

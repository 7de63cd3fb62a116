---------------------------- MODULE BudgetAccount ----------------------------
(***************************************************************************)
(* What a token budget promises, whoever keeps the books: an account with  *)
(* a limit, out of which grants are held and later charged or returned.    *)
(* ChatBudget implements one such account per user and day, and one per    *)
(* session.                                                                *)
(***************************************************************************)
EXTENDS TokenSum

CONSTANTS Grant,      \* the ids of grants
          Limit,      \* the most tokens the account may hold and spend
          MaxTokens   \* the largest single grant

VARIABLES spent,      \* tokens charged to the account since it was opened
          inherited,  \* tokens spent elsewhere that the account may have to count
          held,       \* tokens held by each grant, 0 when it holds none
          overdrawn   \* a charge has exceeded its grant

accountVars == <<spent, inherited, held, overdrawn>>

Init ==
    /\ spent = 0
    /\ inherited = 0
    /\ held = [g \in Grant |-> 0]
    /\ overdrawn = FALSE

(* Grants are only ever taken back whole.                                  *)
Keeps(grants) ==
    /\ held' \in [Grant -> 0 .. MaxTokens]
    /\ \A g \in grants : held'[g] \in {0, held[g]}

(* A grant is admitted only into what is neither spent nor held; grants    *)
(* that lapsed may be returned in the same step.  What the account         *)
(* inherited may be counted as spent then, and only then.                  *)
Admit(g) ==
    /\ held[g] = 0
    /\ Keeps(Grant \ {g})
    /\ held'[g] > 0
    /\ spent' = spent \/ (spent' = inherited /\ spent < inherited)
    /\ spent' + Total(held', MaxTokens) <= Limit
    /\ UNCHANGED <<inherited, overdrawn>>

Return ==
    /\ Keeps(Grant)
    /\ UNCHANGED <<spent, inherited, overdrawn>>

(* A charge ends its grant.  One that exceeds it is booked all the same,   *)
(* and the account is overdrawn from then on.                              *)
Charge(g, n) ==
    /\ held[g] > 0
    /\ spent' = spent + n
    /\ held' = [held EXCEPT ![g] = 0]
    /\ overdrawn' = (overdrawn \/ n > held[g])
    /\ UNCHANGED inherited

(* A new day opens the account anew; grants stay held across it.           *)
Reopen ==
    /\ spent' = 0
    /\ UNCHANGED <<inherited, held, overdrawn>>

(* An account nothing was charged to takes over the spend of another.      *)
Inherit ==
    /\ spent = 0 /\ inherited = 0
    /\ inherited' \in Nat
    /\ UNCHANGED <<spent, held, overdrawn>>

Next ==
    \/ \E g \in Grant : Admit(g)
    \/ Return
    \/ \E g \in Grant, n \in 0 .. MaxTokens : Charge(g, n)
    \/ Reopen
    \/ Inherit

Step == [Next]_accountVars

Spec == Init /\ [][Next]_accountVars

(* Unless a charge exceeded its grant, what is spent and what is held      *)
(* together stay within the limit.                                         *)
WithinLimit == overdrawn \/ spent + Total(held, MaxTokens) <= Limit
=============================================================================

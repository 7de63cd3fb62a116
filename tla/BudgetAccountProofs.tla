------------------------- MODULE BudgetAccountProofs -------------------------
(* What BudgetAccount is worth as a specification: whoever implements it   *)
(* keeps within the limit.                                                 *)
EXTENDS BudgetAccount, TokenSumProofs

AccountType ==
    /\ spent \in Nat
    /\ inherited \in Nat
    /\ held \in [Grant -> 0 .. MaxTokens]
    /\ overdrawn \in BOOLEAN

(* Every account stays within its limit, whatever the limit, until a       *)
(* charge exceeds its grant; Reopen forgets what was spent and Return what *)
(* was held, so neither can break it, and what the account inherited is    *)
(* counted only where it fits.  _reserve_sync admits by exactly this sum   *)
(* (chat_budget_ledger.py).                                                *)
THEOREM AccountWithinLimit ==
    ASSUME IsFiniteSet(Grant), Limit \in Nat, MaxTokens \in Nat
    PROVE  Spec => []WithinLimit
<1>1. Init => AccountType /\ WithinLimit
  <2> SUFFICES ASSUME Init PROVE AccountType /\ WithinLimit
    OBVIOUS
  <2>0. 0 \in 0 .. MaxTokens
    OBVIOUS
  <2>1. AccountType
    BY <2>0 DEF Init, AccountType
  <2>2. Total(held, MaxTokens) = 0
    BY <2>1, TotalZero DEF Init, AccountType
  <2> QED
    BY <2>1, <2>2 DEF Init, WithinLimit
<1>2. AccountType /\ WithinLimit /\ [Next]_accountVars
          => AccountType' /\ WithinLimit'
  <2> SUFFICES ASSUME AccountType, WithinLimit, [Next]_accountVars
               PROVE  AccountType' /\ WithinLimit'
    OBVIOUS
  <2> USE DEF AccountType
  <2>1. CASE UNCHANGED accountVars
    BY <2>1 DEF accountVars, WithinLimit
  <2>2. ASSUME NEW g \in Grant, Admit(g)
        PROVE  AccountType' /\ WithinLimit'
    BY <2>2 DEF Admit, Keeps, WithinLimit
  <2>3. CASE Return
    <3>1. AccountType'
      BY <2>3 DEF Return, Keeps
    <3>2. \A x \in Grant : held'[x] \in {0, held[x]}
      BY <2>3 DEF Return, Keeps
    <3>3. \A x \in Grant : held'[x] <= held[x]
      BY <3>2
    <3>4. Total(held', MaxTokens) <= Total(held, MaxTokens)
      BY <3>1, <3>3, TotalMonotone
    <3>5. Total(held, MaxTokens) \in Nat /\ Total(held', MaxTokens) \in Nat
      BY <3>1, TokensFinite
    <3> QED
      BY <2>3, <3>1, <3>4, <3>5 DEF Return, WithinLimit
  <2>4. ASSUME NEW g \in Grant, NEW n \in 0 .. MaxTokens, Charge(g, n)
        PROVE  AccountType' /\ WithinLimit'
    <3>1. AccountType'
      BY <2>4 DEF Charge
    <3>2. /\ spent' = spent + n
          /\ held' = [held EXCEPT ![g] = 0]
          /\ overdrawn' = (overdrawn \/ n > held[g])
      BY <2>4 DEF Charge
    <3>3. overdrawn' \/ spent' + Total(held', MaxTokens) <= Limit
      BY <3>1, <3>2, LimitOfAccount DEF WithinLimit
    <3> QED
      BY <3>1, <3>3 DEF WithinLimit
  <2>5. CASE Reopen
    <3>1. Total(held, MaxTokens) \in Nat
      BY TokensFinite
    <3> QED
      BY <2>5, <3>1 DEF Reopen, WithinLimit
  <2>6. CASE Inherit
    BY <2>6 DEF Inherit, WithinLimit
  <2> QED
    BY <2>1, <2>2, <2>3, <2>4, <2>5, <2>6 DEF Next
<1> QED
  BY <1>1, <1>2, PTL DEF Spec
=============================================================================

------------------------------ MODULE TokenSum ------------------------------
(***************************************************************************)
(* Sums of token counts (SQL's SUM over a column of the budget ledger).    *)
(* A sum of natural numbers is defined as the number of tokens they stand  *)
(* for, so that facts about it are facts about cardinalities.              *)
(***************************************************************************)
EXTENDS Naturals, FiniteSets

(* One element for every token of every entry of `amount`, a function to   *)
(* 0 .. max.                                                               *)
Tokens(amount, max) ==
    {token \in (DOMAIN amount) \X (1 .. max) : token[2] <= amount[token[1]]}

Total(amount, max) == Cardinality(Tokens(amount, max))
=============================================================================

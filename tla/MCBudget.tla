------------------------------ MODULE MCBudget ------------------------------
(* Instances of ChatBudget for TLC.                                        *)
EXTENDS ChatBudget, TLC

CONSTANT u1

OneUser     == [s \in Session |-> u1]
OneRequest  == {<<1, 2>>}

Symmetry == Permutations(Ticket) \cup Permutations(Turn) \cup Permutations(Session)
=============================================================================

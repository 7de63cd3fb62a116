------------------------------- MODULE MCWork -------------------------------
(* Instances of WorkDelegation for TLC: one job, and the wirings the tests *)
(* and the server use.                                                     *)
EXTENDS WorkDelegation, TLC

OneJob == CHOOSE j \in Job : TRUE
AllInOneJob == [a \in Automation |-> OneJob]

Shipped     == [suspends |-> FALSE, cancels |-> FALSE]
Synchronous == [suspends |-> FALSE, cancels |-> TRUE]
Suspending  == [suspends |-> TRUE, cancels |-> TRUE]
AllWirings  == {Shipped, Synchronous, Suspending}

Symmetry == Permutations(Mission) \cup Permutations(Request)
=============================================================================

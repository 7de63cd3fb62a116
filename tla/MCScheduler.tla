---------------------------- MODULE MCScheduler ----------------------------
(* Instances of TaskScheduler for TLC. *)
EXTENDS TaskScheduler

\* "* * * * *" and "0 * * * *", up to the first time past the clock's end.
Times == [minutely |-> 1..(MaxTime + 1), hourly |-> {MaxTime + 1}]
Expressions == DOMAIN Times
=============================================================================

----------------------------- MODULE MCMission -----------------------------
(* Instances of MissionEngine for TLC: the kinds of job a run creates.     *)
EXTENDS MissionEngine, TLC

Plain == [risk |-> "low", schedule |-> "none", kind |-> "task",
          origin |-> "user", flagged |-> FALSE]

PlainJob     == Plain
FlaggedJob   == [Plain EXCEPT !.flagged = TRUE]
MediumJob    == [Plain EXCEPT !.risk = "medium"]
GatedJob     == [MediumJob EXCEPT !.flagged = TRUE]
HighJob      == [Plain EXCEPT !.risk = "high"]
UnknownJob   == [Plain EXCEPT !.kind = "unknown"]
OnceJob      == [Plain EXCEPT !.schedule = "once"]
RecurringJob == [Plain EXCEPT !.schedule = "recurring"]
BrokenJob    == [Plain EXCEPT !.schedule = "malformed"]
PlannerJob   == [Plain EXCEPT !.kind = "planner"]
PlannedGated == [MediumJob EXCEPT !.origin = "plan"]
PlannedPlain == [Plain EXCEPT !.origin = "plan"]

(* Engine: schedules, policy outcomes and kinds; no approvals.             *)
EngineSpecs == {PlainJob, FlaggedJob, HighJob, UnknownJob, OnceJob, RecurringJob}

(* Faults: gated by hand, gated by a plan, the planner itself, and a job   *)
(* whose finalizer raises.                                                 *)
FaultSpecs == {GatedJob, PlannerJob, PlannedGated, PlannedPlain, BrokenJob}

ScheduleSpecs == {PlainJob, RecurringJob}
PlainSpecs    == {PlainJob}
FlaggedSpecs  == {PlainJob, FlaggedJob}
BrokenSpecs   == {PlainJob, BrokenJob}

Symmetry == Permutations(Job)
=============================================================================

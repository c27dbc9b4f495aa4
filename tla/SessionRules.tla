---------------------------- MODULE SessionRules ----------------------------
(***************************************************************************)
(* The mission session of domain/session.py: its stages, the transition     *)
(* table that move_to consults, and the two ways a new session value is     *)
(* made from an old one (move_to and touch).  Pure definitions: the stored   *)
(* session is a variable of the modules that extend this one.               *)
(*                                                                         *)
(* A session is abstracted to what decides the workflow: active_phase and   *)
(* pending_interaction_id are labels for the screen, and a blocked_reason   *)
(* is the tag of the phase or check the text names, because the code reads  *)
(* the text only through "phase=..." and "changeset has unresolved issues". *)
(***************************************************************************)
EXTENDS Integers

CONSTANT NTasks      \* tasks of the WorkPlan, in the order of tasks.json

ASSUME NTasksAssumption == NTasks \in Nat \ {0}

Task == 1 .. NTasks
NoTask == 0          \* active_task_id = ""
NoSnapshot == -1     \* approved_snapshot_id = ""
NoReason == ""       \* blocked_reason = "", and no error elsewhere

Stage == {"draft", "researching", "research_review", "grilling",
          "design_review", "structuring", "workplan_review", "ready",
          "task_preparation", "task_review", "executing", "reconciling",
          "paused", "amendment_review", "completed", "blocked"}

\* Why a session is blocked: a phase, or the check that refused to go on.
Reason == {"research", "grill", "structure", "workplan", "changeset", "spec",
           "plan", "implement", "review", "contract", "reconcile",
           "unrunnable"}

\* Every stage but COMPLETED and BLOCKED may block; the other edges one by one.
Transition ==
    {<<s, "blocked">> : s \in Stage \ {"completed", "blocked"}}
    \cup
    {<<"draft", "researching">>,
     <<"researching", "research_review">>,
     <<"research_review", "researching">>,
     <<"research_review", "grilling">>,
     <<"research_review", "design_review">>,
     <<"grilling", "design_review">>,
     <<"design_review", "grilling">>,
     <<"design_review", "structuring">>,
     <<"structuring", "workplan_review">>,
     <<"workplan_review", "structuring">>,
     <<"workplan_review", "ready">>,
     <<"ready", "task_preparation">>,
     <<"ready", "amendment_review">>,
     <<"ready", "completed">>,
     <<"task_preparation", "task_review">>,
     <<"task_review", "task_preparation">>,
     <<"task_review", "executing">>,
     <<"task_review", "amendment_review">>,
     <<"executing", "reconciling">>,
     <<"executing", "paused">>,
     <<"reconciling", "ready">>,
     <<"reconciling", "amendment_review">>,
     <<"reconciling", "completed">>,
     <<"paused", "ready">>,
     <<"paused", "amendment_review">>,
     <<"amendment_review", "structuring">>,
     <<"amendment_review", "ready">>,
     <<"blocked", "draft">>,
     <<"blocked", "task_preparation">>,
     <<"blocked", "paused">>,
     <<"blocked", "executing">>}

CanMove(from, to) == <<from, to>> \in Transition

Session == [stage : Stage, rev : Nat, task : Task \cup {NoTask},
            snapshot : Nat \cup {NoSnapshot}, reason : Reason \cup {NoReason}]

FreshSession == [stage |-> "draft", rev |-> 0, task |-> NoTask,
                 snapshot |-> NoSnapshot, reason |-> NoReason]

\* move_to without keywords: the reason is cleared, task and snapshot stay.
MoveTo(s, to) == [s EXCEPT !.stage = to, !.rev = @ + 1, !.reason = NoReason]

MoveToTask(s, to, task) == [MoveTo(s, to) EXCEPT !.task = task]

MoveToSnapshot(s, to, id) == [MoveTo(s, to) EXCEPT !.snapshot = id]

Blocked(s, why) == [MoveTo(s, "blocked") EXCEPT !.reason = why]

Touch(s) == [s EXCEPT !.rev = @ + 1]
=============================================================================

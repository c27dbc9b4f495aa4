----------------------------- MODULE SessionLog -----------------------------
(***************************************************************************)
(* What the session store promises to everybody who reads _session.json,    *)
(* whoever writes it: the stored sessions form one chain of revisions.      *)
(* Each new session is made from the one it replaces, either by a           *)
(* transition of the table or by a touch, so no writer's update is lost and *)
(* no stage is skipped.  The snapshot changes only when the approved design *)
(* enters structuring; a completed mission stays completed.                 *)
(***************************************************************************)
EXTENDS SessionRules

VARIABLE session

Init == session = FreshSession

\* A transition of the table.  Only the one into STRUCTURING may bring another
\* snapshot, and the active task changes only where a task is taken up or left.
Advance ==
    LET next == session' IN
    /\ next \in Session
    /\ next.rev = session.rev + 1
    /\ CanMove(session.stage, next.stage)
    /\ next.snapshot # session.snapshot => next.stage = "structuring"
    /\ next.task # session.task =>
           next.stage \in {"task_preparation", "ready", "completed"}
    /\ next.reason # NoReason <=> next.stage = "blocked"

\* A writer records that something beside the session changed.
Renew == session' = Touch(session)

Next == Advance \/ Renew

Spec == Init /\ [][Next]_session
=============================================================================

-------------------------- MODULE TaskCoordinator ---------------------------
(***************************************************************************)
(* The actions of application/interactive_task_coordinator.py: prepare one  *)
(* task, execute it under the mission's lease, reconcile, and the retries.  *)
(* The lease, the tasks and the session are three files written one after   *)
(* the other, and HTTP threads write them too, so each write is a step.     *)
(***************************************************************************)
EXTENDS MissionState

designFiles == <<docs, design, approved, contracts>>
others == <<client, context, crashes, begun, outrun>>

\* Executions that hold a lease: a PLAN mission never takes one.
Executing == {"execute-task", "retry-review"}
PlanMode == context.plan
OpTask == op.held.task

\* Mutant of Runnable: a dependency that is not finished does not matter.
RunnableUnordered(t) == tasks[t] = "pending"

\* domain/workplan.py: the first pending task whose dependencies are completed.
Runnable(t) == /\ tasks[t] = "pending"
               /\ \A d \in Deps[t] : tasks[d] = "completed"
IsNextRunnable(t) == Runnable(t) /\ \A u \in 1 .. (t - 1) : ~Runnable(u)
AllCompleted(ts) == \A t \in Task : ts[t] = "completed"

SetTask(t, status) == tasks' = [tasks EXCEPT ![t] = status]

-----------------------------------------------------------------------------
(* prepare_next, retry_preparation. *)

\* The next runnable task, or _finish_or_block when there is none.
StartPreparation ==
    /\ At("start", {"prepare-task"})
    /\ \/ \E t \in Task : /\ IsNextRunnable(t)
                          /\ SaveAndGo(MoveToTask(op.held, "task_preparation", t), "agent")
       \/ /\ \A t \in Task : ~Runnable(t)
          /\ SaveAndEnd(IF AllCompleted(tasks)
                        THEN MoveTo(op.held, "completed")
                        ELSE Blocked(op.held, "unrunnable"))
    /\ UNCHANGED <<tasks, lease, pending, designFiles, others>>

RestartPreparation ==
    /\ At("start", {"retry-preparation"})
    /\ SaveAndGo(MoveTo(op.held, "task_preparation"), "agent")
    /\ UNCHANGED <<tasks, lease, pending, designFiles, others>>

\* SPEC and PLAN have run, or one of them blocked.
EndPreparation ==
    /\ At("agent", {"prepare-task", "retry-preparation"})
    /\ \E block \in {NoReason, "spec", "plan"} :
        SaveAndEnd(IF block = NoReason THEN MoveTo(op.held, "task_review")
                                 ELSE Blocked(op.held, block))
    /\ UNCHANGED <<tasks, lease, pending, designFiles, others>>

-----------------------------------------------------------------------------
(* execute_prepared, retry_review: take the lease, enter EXECUTING, run the  *)
(* phases.                                                                   *)

\* begin reads the leases, the session and the task; a refusal ends the action.
RequestLease ==
    /\ At("start", Executing)
    /\ op' = IF op.kind = "execute-task" /\ PlanMode
             THEN [op EXCEPT !.pc = "enter"]
             ELSE IF MayBegin("mission", OpTask)
             THEN [op EXCEPT !.pc = "begin"]
             ELSE NoOp
    /\ UNCHANGED <<session, tasks, lease, pending, designFiles, others>>

\* The lease is begun before the session is written.
TakeLease ==
    /\ At("begin", Executing)
    /\ WriteLease(Grant("mission", OpTask))
    /\ op' = [op EXCEPT !.pc = "enter", !.lease = begun + 1]
    /\ UNCHANGED <<session, tasks, pending, designFiles, client, context, crashes>>

\* The first phase: IMPLEMENT, none for a PLAN mission, REVIEW for a retry.
EnterExecution ==
    /\ At("enter", Executing)
    /\ IF op.kind = "retry-review"
       THEN IF tasks[OpTask] = "failed"
            THEN SaveAndGo(MoveTo(op.held, "executing"), "reopen")
            ELSE UNCHANGED session /\ op' = Raised
       ELSE SaveAndGo(MoveTo(op.held, "executing"),
                      IF PlanMode THEN "finish" ELSE "implement")
    /\ UNCHANGED <<tasks, lease, pending, designFiles, others>>

ReopenTask ==
    /\ At("reopen", {"retry-review"})
    /\ SetTask(OpTask, "pending")
    /\ op' = [op EXCEPT !.pc = "review"]
    /\ UNCHANGED <<session, lease, pending, designFiles, others>>

\* GraphPropose: the agent of a writing phase changes the design; while the
\* session says EXECUTING the change also leaves the amendment artifact.
AgentProposes ==
    /\ \/ At("agent", {"research", "grill"})
       \/ At("implement", Executing)
       \/ At("finish", Executing) /\ ~PlanMode
    /\ design < MaxDesign
    /\ design' = design + 1
    /\ pending' = (pending \/ session.stage \in {"executing", "reconciling"})
    /\ UNCHANGED <<session, tasks, lease, docs, approved, contracts, op, others>>

\* A phase fails the task, stops at the boundary if the design has changed
\* (a retried review does not look), or hands over to the next phase.
EndPhase ==
    /\ At("implement", Executing) \/ At("review", Executing)
    /\ \E block \in BOOLEAN :
        IF block
        THEN /\ SetTask(OpTask, "failed")
             /\ op' = [op EXCEPT !.pc = "report", !.reason = op.pc]
        ELSE /\ UNCHANGED tasks
             /\ op' = [op EXCEPT !.pc =
                    IF pending /\ op.kind = "execute-task" THEN "hand_off"
                    ELSE IF op.pc = "implement" /\ OpTask \in Reviewed
                         THEN "review"
                         ELSE "finish"]
    /\ UNCHANGED <<session, lease, pending, designFiles, others>>

\* report_blocker / propose_amendment: the lease must still be ours.
CloseLease(status, pc) ==
    IF op.lease = 0
    THEN UNCHANGED lease /\ op' = [op EXCEPT !.pc = pc]
    ELSE IF IsActive(op.lease)
         THEN EndLease(status) /\ op' = [op EXCEPT !.pc = pc, !.lease = 0]
         ELSE UNCHANGED lease /\ op' = Raised

ReportBlocker ==
    /\ At("report", Executing)
    /\ CloseLease("blocked", "block")
    /\ UNCHANGED <<session, tasks, pending, designFiles, others>>

BlockExecution ==
    /\ At("block", Executing)
    /\ SaveAndEnd(Blocked(op.held, op.reason))
    /\ UNCHANGED <<tasks, lease, pending, designFiles, others>>

HandOffLease ==
    /\ At("hand_off", Executing)
    /\ CloseLease("amendment_requested", "pause")
    /\ UNCHANGED <<session, tasks, pending, designFiles, others>>

-----------------------------------------------------------------------------
(* _pause_for_amendment: two sessions are saved, then the artifact deleted.  *)

\* Mutant of Pause: the artifact is deleted before the session is in review.
PauseConsuming ==
    /\ At("pause", Executing)
    /\ pending' = FALSE
    /\ SaveAndGo(MoveTo(op.held, "paused"), "paused")
    /\ UNCHANGED <<tasks, lease, designFiles, others>>

Pause ==
    /\ At("pause", Executing)
    /\ SaveAndGo(MoveTo(op.held, "paused"), "paused")
    /\ UNCHANGED <<tasks, lease, pending, designFiles, others>>

\* Mutant of EnterAmendment: the mission is left PAUSED.
EnterAmendmentLater ==
    /\ At("paused", Executing)
    /\ UNCHANGED session /\ op' = [op EXCEPT !.pc = "close"]
    /\ UNCHANGED <<tasks, lease, pending, designFiles, others>>

EnterAmendment ==
    /\ At("paused", Executing)
    /\ SaveAndGo(MoveTo(op.held, "amendment_review"), "consume")
    /\ UNCHANGED <<tasks, lease, pending, designFiles, others>>

ConsumeAmendment ==
    /\ At("consume", Executing)
    /\ pending' = FALSE
    /\ op' = [op EXCEPT !.pc = "close"]
    /\ UNCHANGED <<session, tasks, lease, designFiles, others>>

-----------------------------------------------------------------------------
(* _finish_execution. *)

\* The verdict: the review's (the human refuses, or REIMPLEMENT blocks), then
\* the contract verifier's.  A PLAN mission has neither.
Refusals == IF PlanMode THEN {}
            ELSE {"contract"} \cup
                 (IF OpTask \in Reviewed THEN {"review", "implement"} ELSE {})

\* Mutant of DecideTask: a refused task keeps its status.
DecideLeavingTask ==
    /\ At("finish", Executing)
    /\ \E block \in Refusals \cup {NoReason} :
        IF block = NoReason
        THEN /\ SetTask(OpTask, "completed")
             /\ op' = [op EXCEPT !.pc = "boundary"]
        ELSE /\ UNCHANGED tasks
             /\ op' = [op EXCEPT !.pc = "refuse", !.reason = block]
    /\ UNCHANGED <<session, lease, pending, designFiles, others>>

DecideTask ==
    /\ At("finish", Executing)
    /\ \E block \in Refusals \cup {NoReason} :
        IF block = NoReason
        THEN /\ SetTask(OpTask, "completed")
             /\ op' = [op EXCEPT !.pc = "boundary"]
        ELSE /\ SetTask(OpTask, "failed")
             /\ op' = [op EXCEPT !.pc = "refuse", !.reason = block]
    /\ UNCHANGED <<session, lease, pending, designFiles, others>>

\* The session is blocked first and the lease closed after it.
RefuseTask ==
    /\ At("refuse", Executing)
    /\ SaveAndGo(Blocked(op.held, op.reason), "close")
    /\ UNCHANGED <<tasks, lease, pending, designFiles, others>>

Boundary ==
    /\ At("boundary", Executing)
    /\ IF pending
       THEN UNCHANGED session /\ op' = [op EXCEPT !.pc = "pause"]
       ELSE SaveAndGo(MoveTo(op.held, "reconciling"), "reconcile")
    /\ UNCHANGED <<tasks, lease, pending, designFiles, others>>

\* Mutant of Reconcile: what is left is judged on the list read before this
\* task was completed, by what was runnable then.
ReconcileStale ==
    /\ At("reconcile", Executing)
    /\ \E verdict \in {NoReason, "diverged", "gated"} :
        op' = [op EXCEPT !.pc = "judged", !.reason = verdict,
                         !.more = \E t \in Task : Runnable(t) /\ OpTask \notin Deps[t]]
    /\ UNCHANGED <<session, tasks, lease, pending, designFiles, others>>

\* `refreshed` is read once, here: whether a task is still pending, and what
\* the reconciler finds (this task's operations diverge, or the gate stays shut).
Reconcile ==
    /\ At("reconcile", Executing)
    /\ \E verdict \in {NoReason, "diverged", "gated"} :
        /\ (\E t \in Task : tasks[t] = "failed") => verdict # NoReason
        /\ op' = [op EXCEPT !.pc = "judged", !.reason = verdict,
                            !.more = \E t \in Task : tasks[t] = "pending"]
    /\ UNCHANGED <<session, tasks, lease, pending, designFiles, others>>

\* Mutant of BlockDiverged: the verdict is saved where the reason belongs.
BlockWithVerdict == op' = [op EXCEPT !.pc = "refuse"]

BlockDiverged == op' = [op EXCEPT !.pc = "refuse", !.reason = "reconcile"]

\* The amendment artifact is looked at again after the reconciler...
Judge ==
    /\ At("judged", Executing)
    /\ IF pending
       THEN UNCHANGED <<session, tasks>> /\ op' = [op EXCEPT !.pc = "pause"]
       ELSE IF op.reason = "diverged"
       THEN /\ SetTask(OpTask, "failed")
            /\ BlockDiverged
            /\ UNCHANGED session
       ELSE /\ UNCHANGED tasks
            /\ IF op.more
               THEN SaveAndGo(MoveToTask(op.held, "ready", NoTask), "close")
               ELSE UNCHANGED session /\ op' = [op EXCEPT !.pc = "reported"]
    /\ UNCHANGED <<lease, pending, designFiles, others>>

\* ... and once more after the report, before the mission is declared done.
Conclude ==
    /\ At("reported", Executing)
    /\ IF pending
       THEN UNCHANGED session /\ op' = [op EXCEPT !.pc = "pause"]
       ELSE IF op.reason = "gated"
       THEN SaveAndGo(Blocked(op.held, "reconcile"), "close")
       ELSE SaveAndGo(MoveToTask(op.held, "completed", NoTask), "close")
    /\ UNCHANGED <<tasks, lease, pending, designFiles, others>>

\* Mutant of ClosingStatus: a blocked execution closes as a completed one.
ClosingStatusIgnoringBlock(stage) ==
    IF stage = "paused" THEN "amendment_requested" ELSE "completed"

\* The status the lease gets from the stage of the result.
ClosingStatus(stage) ==
    CASE stage = "paused"  -> "amendment_requested"
      [] stage = "blocked" -> "blocked"
      [] OTHER             -> "completed"

\* _close_mission_execution looks at the stage of the result; complete may
\* still fail on the verifier.
CloseExecution ==
    /\ At("close", Executing)
    /\ IF op.lease = 0
       THEN UNCHANGED lease /\ op' = NoOp
       ELSE \E passed \in BOOLEAN :
            IF ~IsActive(op.lease) \/ (op.held.stage # "blocked" /\ ~passed)
            THEN UNCHANGED lease /\ op' = Raised
            ELSE EndLease(ClosingStatus(op.held.stage)) /\ op' = NoOp
    /\ UNCHANGED <<session, tasks, pending, designFiles, others>>

\* _safe_execution_blocker, then the exception goes on to the runner.
SafeBlocker ==
    /\ At("raise", Executing)
    /\ IF IsActive(op.lease) THEN EndLease("blocked") ELSE UNCHANGED lease
    /\ op' = NoOp
    /\ UNCHANGED <<session, tasks, pending, designFiles, others>>

TaskStep ==
    \/ StartPreparation \/ RestartPreparation \/ EndPreparation
    \/ RequestLease \/ TakeLease \/ EnterExecution \/ ReopenTask
    \/ EndPhase \/ ReportBlocker \/ BlockExecution \/ HandOffLease
    \/ Pause \/ EnterAmendment \/ ConsumeAmendment
    \/ DecideTask \/ RefuseTask \/ Boundary
    \/ Reconcile \/ Judge \/ Conclude \/ CloseExecution \/ SafeBlocker
=============================================================================

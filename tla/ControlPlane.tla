---------------------------- MODULE ControlPlane ----------------------------
(***************************************************************************)
(* What HTTP threads do beside the running action: chat and MCP executions   *)
(* (application/contract_execution.py behind application/control_plane.py)   *)
(* and changes of the design with the amendments they ask for.              *)
(*                                                                         *)
(* The control plane's own ContractExecutionService serialises its lease    *)
(* operations by its lock; the coordinator's instance has another lock, so   *)
(* an execution of the mission interleaves with every step here, also        *)
(* between what begin reads and what it writes.                             *)
(***************************************************************************)
EXTENDS MissionState

static == <<docs, approved, contracts, op, context, crashes, begun, outrun>>

\* A thread inside begin, or complete's second locked section, excludes the
\* other HTTP threads; the rest of the operations are one step each.
InLock(r) == r.pc \in {"begin", "advance", "save", "release"}
Locked == \E c \in Clients : InLock(client[c])

\* Assumed of the clients: they begin as "chat" or "mcp" and name an execution
\* that one of them has begun.  The server does not see to it: begin takes the
\* actor from the body of the request, and complete, blocker and amendment take
\* any execution that is active.
Addressable == HasActiveLease /\ lease.actor \in ExternalActors

Goto(c, pc) == client' = [client EXCEPT ![c].pc = pc]
Reply(c) == client' = [client EXCEPT ![c] = NoRequest]

-----------------------------------------------------------------------------
(* Leases. *)

\* begin: what it reads and checks...
RequestExternal(c) ==
    /\ ~Serving(c) /\ ~Locked
    /\ begun < MaxLeases
    /\ \E t \in Task, actor \in ExternalActors :
        /\ MayBegin(actor, t)
        /\ client' = [client EXCEPT ![c].pc = "begin", ![c].lease = Grant(actor, t)]
    /\ UNCHANGED <<session, tasks, design, lease, pending, static>>

\* ... and what it writes, which is not compared with what it read.
BeginExternal(c) ==
    /\ client[c].pc = "begin"
    /\ WriteLease(client[c].lease)
    /\ Reply(c)
    /\ UNCHANGED <<session, tasks, design, pending, docs, approved, contracts,
                   op, context, crashes>>

ReportExternalBlocker(c) ==
    /\ ~Serving(c) /\ ~Locked
    /\ Addressable
    /\ EndLease("blocked")
    /\ UNCHANGED <<session, tasks, design, pending, client, static>>

\* complete: the evidence is checked under the lock, then the lock is released
\* while the code graph is rebuilt.
CheckEvidence(c) ==
    /\ ~Serving(c) /\ ~Locked
    /\ Addressable
    /\ client' = [client EXCEPT ![c].pc = "accept", ![c].lease = lease]
    /\ UNCHANGED <<session, tasks, design, lease, pending, static>>

\* The second locked section: commit, mark the task, and see whether it was
\* the last one.  A lease ended meanwhile is a conflict.
AcceptTask(c) ==
    /\ client[c].pc = "accept" /\ ~Locked
    /\ IF IsActive(client[c].lease.id)
       THEN /\ tasks' = [tasks EXCEPT ![lease.task] = "completed"]
            /\ client' = [client EXCEPT ![c].pc = "advance",
                   ![c].last = \A t \in Task \ {lease.task} : tasks[t] = "completed"]
       ELSE UNCHANGED tasks /\ Reply(c)
    /\ UNCHANGED <<session, design, lease, pending, static>>

\* The session is read; the transition to COMPLETED may be illegal.
ReadSession(c) ==
    /\ client[c].pc = "advance"
    /\ IF client[c].last /\ ~CanMove(session.stage, "completed")
       THEN Reply(c)
       ELSE client' = [client EXCEPT ![c].pc = "save", ![c].held = session]
    /\ UNCHANGED <<session, tasks, design, lease, pending, static>>

Advanced(old, last) == IF last THEN MoveToTask(old, "completed", NoTask)
                               ELSE Touch(old)

SaveProgress(c) ==
    /\ client[c].pc = "save"
    /\ LET old == client[c].held IN
       IF CasHolds(old)
       THEN session' = Advanced(old, client[c].last) /\ Goto(c, "release")
       ELSE UNCHANGED session /\ Reply(c)
    /\ UNCHANGED <<tasks, design, lease, pending, static>>

\* The copy read at the start of the section is written back.
ReleaseLease(c) ==
    /\ client[c].pc = "release"
    /\ lease' = [client[c].lease EXCEPT !.status = "completed"]
    /\ Reply(c)
    /\ UNCHANGED <<session, tasks, design, pending, static>>

-----------------------------------------------------------------------------
(* Amendments. *)

\* The stages an amendment takes straight into review.
Reviewable == {"ready", "task_review", "paused"}

\* apply_design, or propose_contract_amendment with operations: an applied
\* change is committed before anything is recorded about it.
ApplyDesign(c) ==
    /\ ~Serving(c)
    /\ design < MaxDesign
    /\ design' = design + 1
    /\ \E amending \in BOOLEAN :
        /\ amending => Addressable
        /\ client' = [client EXCEPT ![c].pc = "record", ![c].amending = amending,
                         ![c].lease = IF amending THEN lease ELSE NoLease]
    /\ UNCHANGED <<session, tasks, lease, pending, static>>

\* After _record_design_amendment: reply, or go on to end the lease.
Recorded(c) == IF client[c].amending THEN Goto(c, "end_lease") ELSE Reply(c)

\* _record_design_amendment reads the session once and acts on that stage.
RecordAmendment(c) ==
    /\ client[c].pc = "record"
    /\ IF session.stage \in {"executing", "reconciling"}
       THEN Goto(c, "mark")
       ELSE IF session.stage \in Reviewable
       THEN client' = [client EXCEPT ![c].pc = "require", ![c].held = session]
       ELSE Recorded(c)
    /\ UNCHANGED <<session, tasks, design, lease, pending, static>>

MarkPending(c) ==
    /\ client[c].pc = "mark"
    /\ pending' = TRUE
    /\ Recorded(c)
    /\ UNCHANGED <<session, tasks, design, lease, static>>

\* The compare-and-swap; when it is lost the artifact is left instead.
RequireReview(c) ==
    /\ client[c].pc = "require"
    /\ IF CasHolds(client[c].held)
       THEN /\ session' = MoveTo(client[c].held, "amendment_review")
            /\ UNCHANGED pending
       ELSE UNCHANGED session /\ pending' = TRUE
    /\ Recorded(c)
    /\ UNCHANGED <<tasks, design, lease, static>>

\* propose_amendment on the lease, after the design or instead of it.
EndAmendedLease(c) ==
    /\ client[c].pc = "end_lease" /\ ~Locked
    /\ IF IsActive(client[c].lease.id) THEN EndLease("amendment_requested")
                                    ELSE UNCHANGED lease
    /\ Reply(c)
    /\ UNCHANGED <<session, tasks, design, pending, static>>

ProposeAmendment(c) ==
    /\ ~Serving(c) /\ ~Locked
    /\ session.rev < MaxRevision
    /\ Addressable
    /\ EndLease("amendment_requested")
    /\ Goto(c, "request")
    /\ UNCHANGED <<session, tasks, design, pending, static>>

\* The revision the request names is read before it waits for the lock.
ReadForReview(c) ==
    /\ client[c].pc = "request"
    /\ client' = [client EXCEPT ![c].pc = "review", ![c].held = session]
    /\ UNCHANGED <<session, tasks, design, lease, pending, static>>

\* Mutant of RequestReview: it waits for a stage that can be reviewed.
RequestReviewWaiting(c) ==
    /\ client[c].pc = "review"
    /\ op.kind \notin PreparationKind
    /\ session.stage \in Reviewable
    /\ session' = MoveTo(session, "amendment_review")
    /\ Reply(c)
    /\ UNCHANGED <<tasks, design, lease, pending, static>>

\* preparation.request_amendment, under the preparation coordinator's lock.
RequestReview(c) ==
    /\ client[c].pc = "review"
    /\ op.kind \notin PreparationKind
    /\ IF session.stage \in Reviewable /\ CasHolds(client[c].held)
       THEN session' = MoveTo(session, "amendment_review")
       ELSE UNCHANGED session
    /\ Reply(c)
    /\ UNCHANGED <<tasks, design, lease, pending, static>>

ClientStep(c) ==
    \/ BeginExternal(c)
    \/ AcceptTask(c) \/ ReadSession(c) \/ SaveProgress(c) \/ ReleaseLease(c)
    \/ RecordAmendment(c) \/ MarkPending(c) \/ RequireReview(c)
    \/ EndAmendedLease(c) \/ ReadForReview(c) \/ RequestReview(c)

ClientRequest(c) ==
    \/ RequestExternal(c) \/ ReportExternalBlocker(c) \/ CheckEvidence(c)
    \/ ApplyDesign(c) \/ ProposeAmendment(c)
=============================================================================

------------------------------ MODULE Mission -------------------------------
(***************************************************************************)
(* One mission worker as a whole: the AsyncActionRunner lets one action run  *)
(* at a time and refuses the others, HTTP threads work beside it, and the    *)
(* process may be killed between any two writes and started again on its     *)
(* files.  Composes PreparationCoordinator, TaskCoordinator, ControlPlane.   *)
(***************************************************************************)
EXTENDS PreparationCoordinator, TaskCoordinator, ControlPlane

Init ==
    /\ session = FreshSession
    /\ tasks = [t \in Task |-> "pending"]
    /\ docs = {}
    /\ design = 0
    /\ approved = NoSnapshot
    /\ contracts = NoSnapshot
    /\ lease = NoLease
    /\ pending = FALSE
    /\ op = NoOp
    /\ client = [c \in Clients |-> NoRequest]
    /\ context \in [plan : BOOLEAN, noGrill : BOOLEAN]
    /\ crashes = 0
    /\ begun = 0
    /\ outrun = FALSE

-----------------------------------------------------------------------------
(* run_action, and the check each coordinator makes first (_expected): the   *)
(* caller saw this revision and the stage admits the action.                 *)

StartStages(kind) ==
    CASE kind = "research"          -> {"draft", "research_review"}
      [] kind = "grill"             -> {"research_review", "design_review"}
      [] kind = "skip-grill"        -> {"research_review"}
      [] kind = "approve-design"    -> {"design_review", "amendment_review"}
      [] kind = "approve-execution" -> {"workplan_review"}
      [] kind = "request-amendment" -> {"ready", "task_review", "paused"}
      [] kind = "prepare-task"      -> {"ready"}
      [] kind = "execute-task"      -> {"task_review"}
      [] OTHER                      -> {"blocked"}

\* The blocked_reason each retry looks for.
RetriedReasons(kind) ==
    CASE kind = "retry-research"    -> {"research"}
      [] kind = "retry-grill"       -> {"grill"}
      [] kind = "retry-design"      -> {"changeset"}
      [] kind = "retry-preparation" -> {"spec", "plan"}
      [] kind = "retry-review"      -> {"review"}
      [] OTHER                      -> {NoReason}

\* Mutant of Admitted: a blocked mission is retried whatever blocked it.
AdmittedAnyReason(kind) == session.stage \in StartStages(kind)

Admitted(kind) == /\ session.stage \in StartStages(kind)
                  /\ session.reason \in RetriedReasons(kind)

\* An accepted action; one that is refused changes nothing and is no step.
Submit(kind) ==
    /\ ~Running
    /\ session.rev < MaxRevision
    /\ kind \in Executing => begun < MaxLeases
    /\ Admitted(kind)
    /\ op' = [NoOp EXCEPT !.kind = kind, !.pc = "start", !.held = session]
    /\ UNCHANGED <<files, client, context, crashes, begun, outrun>>

\* The worker is killed: its threads are gone, its files stay.
Crash ==
    /\ crashes < MaxCrashes
    /\ crashes' = crashes + 1
    /\ op' = NoOp
    /\ client' = [c \in Clients |-> NoRequest]
    /\ UNCHANGED <<files, context, begun, outrun>>

OpStep == PreparationStep \/ TaskStep

Next ==
    \/ SaveIdea
    \/ \E kind \in Kind : Submit(kind)
    \/ OpStep
    \/ AgentProposes
    \/ \E c \in Clients : ClientRequest(c) \/ ClientStep(c)
    \/ Crash

Spec == Init /\ [][Next]_vars

\* A started thread runs until it returns: phases have timeouts, the operating
\* system schedules every thread, and a thread that waits for a lock gets it
\* when it is released again and again.
Fairness == WF_vars(OpStep) /\ \A c \in Clients : SF_vars(ClientStep(c))

FairSpec == Spec /\ Fairness
-----------------------------------------------------------------------------
(* Types. *)

Pc == {"idle", "start", "agent", "skip", "approved", "compile", "begin", "enter",
       "reopen", "implement", "review", "report", "block", "hand_off", "pause",
       "paused", "consume", "finish", "refuse", "boundary", "reconcile",
       "judged", "reported", "close", "raise"}

Op == [kind : Kind \cup {"none"}, pc : Pc, held : Session, lease : Nat,
       reason : Reason \cup {NoReason, "diverged", "gated"}, more : BOOLEAN]

Request == [pc : {"idle", "begin", "accept", "advance", "save", "release", "record",
                  "mark", "require", "end_lease", "request", "review"},
            held : Session, lease : Lease, last : BOOLEAN, amending : BOOLEAN]

\* Every variable holds a value of the kind its file or thread can hold.
TypeOK ==
    /\ session \in Session
    /\ tasks \in [Task -> TaskStatus]
    /\ docs \in SUBSET Doc
    /\ design \in Nat
    /\ approved \in Nat \cup {NoSnapshot}
    /\ contracts \in Nat \cup {NoSnapshot}
    /\ lease \in Lease
    /\ pending \in BOOLEAN
    /\ op \in Op
    /\ client \in [Clients -> Request]
    /\ context \in [plan : BOOLEAN, noGrill : BOOLEAN]
    /\ crashes \in Nat
    /\ begun \in Nat
    /\ outrun \in BOOLEAN
-----------------------------------------------------------------------------
(* Safety. *)

SessionLogOf == INSTANCE SessionLog

\* The session file is one chain of legal revisions (domain/session.py,
\* session_store.py) although the coordinators, the control plane and the
\* contract service all write it from copies they read earlier.
ImplementsSessionLog == SessionLogOf!Spec

\* While a full mission runs a task's phases, the active lease is its own, for
\* that task and for the snapshot the session names: no chat or MCP execution
\* writes code beside it, and it is not working from a replaced contract.  Only a
\* begin that is written after it would have been refused can change that: the
\* coordinator's service and the control plane's share the file but no lock.
MissionOwnsExecution ==
    ~outrun /\ (At("implement", Executing) \/ At("review", Executing)) =>
        /\ IsActive(op.lease)
        /\ lease.actor = "mission"
        /\ lease.task = session.task
        /\ lease.snapshot = session.snapshot

\* From the WorkPlan on, the contracts on disk and the changeset that the
\* reconciler judges by are those of the snapshot the session names.
ContractsMatchSession ==
    session.stage \in {"workplan_review", "ready", "task_preparation",
                       "task_review", "executing", "reconciling", "paused"} =>
        contracts = session.snapshot /\ approved = session.snapshot

\* The task in hand has all its dependencies completed, although chat and MCP
\* complete tasks in any order and an amendment rewrites the WorkPlan.
DependenciesFirst ==
    session.stage \in {"task_preparation", "task_review", "executing"} =>
        \A d \in Deps[session.task] : tasks[d] = "completed"

\* A session blocked by a review has a failed task: retry_review relies on it
\* after it has begun the lease, with no handler to close it again.  A chat whose
\* begin was written late can complete that task.
RetryReviewFindsFailedTask ==
    ~outrun /\ session.stage = "blocked" /\ session.reason = "review" =>
        tasks[session.task] = "failed"

\* The mission's own actions declare it completed only when every task is,
\* though the task list was read before the report was written.
MissionConcludesOnCompletedTasks ==
    [][op' # op /\ session.stage # "completed" /\ session'.stage = "completed"
         => AllCompleted(tasks)]_vars

\* The amendment artifact is deleted only once the session has stopped for
\* review: an execution never forgets a design change it was told of.
AmendmentConsumedInReview ==
    [][pending /\ ~pending' => session.stage = "amendment_review"]_vars

\* A mission lease that ends as completed vouches for a completed task.
CompletedLeaseHasCompletedTask ==
    [][lease.actor = "mission" /\ lease.status = "active"
         /\ lease'.id = lease.id /\ lease'.status = "completed"
         => tasks[lease.task] = "completed"]_vars

\* execute_prepared leaves no lease behind however it ends, unless the process
\* dies: its handler covers every step after begin.
ExecuteReleasesLease ==
    [][op.kind = "execute-task" /\ op'.pc = "idle" /\ crashes' = crashes =>
         ~(lease'.status = "active" /\ lease'.id = op.lease)]_vars

\* No action ends with the session in a stage that only an action leaves, unless
\* a request overtook its last save, a design change reached it too late
\* (AmendmentReachesReview), or another begin was written over its lease: then
\* report_blocker and propose_amendment raise before the session is saved.
LeaseLost == op.lease # 0 /\ ~IsActive(op.lease)

NoOrphanStage ==
    [][Running /\ op'.pc = "idle" /\ crashes' = crashes
         /\ session'.stage \in {"researching", "grilling", "structuring",
                "task_preparation", "executing", "reconciling", "paused"}
         => \/ ~CasHolds(op.held)
            \/ pending /\ session.stage = "reconciling"
            \/ LeaseLost]_vars

\* A blocked mission is unblocked by the retry of what blocked it and by nothing
\* else: not by a chat, an amendment, another retry, or an action that began
\* before.  Where no such retry can take its first step the mission stays blocked:
\* retry_grill and retry_design step back along edges the table does not have.
OnlyItsRetryUnblocks ==
    [][session.stage = "blocked" /\ session'.stage # "blocked" =>
         \/ session.reason = "research" /\ op.kind = "retry-research"
         \/ session.reason \in {"spec", "plan"} /\ op.kind = "retry-preparation"
         \/ session.reason = "review" /\ op.kind = "retry-review"]_vars

-----------------------------------------------------------------------------
(* What the documentation says and the code does not do. *)

\* "One authority advances the session" (CDE-D018): the session an action has
\* saved is still the stored one at its next step.
OwnsSession ==
    op.pc \in {"agent", "compile", "reopen", "implement", "review", "report",
               "block", "hand_off", "finish", "refuse", "boundary",
               "reconcile", "judged", "reported"} => CasHolds(op.held)

\* "Stops at the next safe boundary and requires a new approval" (README): an
\* execution that notices a design change does not end in RECONCILING.
AmendmentReachesReview ==
    ~Running /\ crashes = 0 => session.stage # "reconciling"
-----------------------------------------------------------------------------
(* Liveness. *)

\* Every accepted action returns and every HTTP request is answered, also when
\* one waits for the coordinator's lock that the other holds.
ActionsEnd == Running ~> ~Running
RequestsAnswered == \A c \in Clients : Serving(c) ~> ~Serving(c)
=============================================================================

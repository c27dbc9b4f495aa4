---------------------------- MODULE MissionState ----------------------------
(***************************************************************************)
(* The state one mission worker shares between its threads, and the reads   *)
(* and writes they make of it.                                             *)
(*                                                                         *)
(* Files (they survive a crash): _session.json, tasks.json, the document    *)
(* catalogue, design.db, approved_snapshot.json, the contract index, the     *)
(* contract executions, _amendment_pending.json.                             *)
(* Threads (they do not): the one action the AsyncActionRunner lets run,     *)
(* and the HTTP threads that serve lease and design requests beside it.      *)
(***************************************************************************)
EXTENDS SessionRules

CONSTANTS
    Deps,            \* Deps[t]: the tasks t depends on
    Reviewed,        \* the tasks whose pipeline has a REVIEW phase
    Clients,         \* HTTP threads
    ExternalActors,  \* the executors that come over HTTP
    MaxRevision,     \* bounds: no new action once the session is this old,
    MaxDesign,       \*   design revisions,
    MaxLeases,       \*   leases ever begun,
    MaxCrashes       \*   restarts of the worker

Doc == {"idea", "brainstorm", "brief"}
TaskStatus == {"pending", "completed", "failed"}
Actor == {"mission", "chat"}            \* "mcp" behaves as "chat"
LeaseStatus == {"active", "completed", "blocked", "amendment_requested"}

ASSUME ConstantsAssumption ==
    /\ Deps \in [Task -> SUBSET Task]
    /\ Reviewed \subseteq Task
    /\ ExternalActors \subseteq Actor \ {"mission"}
    /\ {MaxRevision, MaxDesign, MaxLeases, MaxCrashes} \subseteq Nat

VARIABLES
    session,    \* _session.json
    tasks,      \* tasks.json: the status of each task
    docs,       \* mission documents that have a revision in the catalogue
    design,     \* design_revision of design.db
    approved,   \* the snapshot in approved_snapshot.json and changeset.json
    contracts,  \* snapshot_id of task-contracts/index.json
    lease,      \* the latest entry of contract-executions.json
    begun,      \* executions ever begun: each is known by an id of its own
    pending,    \* _amendment_pending.json exists
    op,         \* the running action: what its thread holds in its locals
    client,     \* the same for each HTTP thread
    context,    \* MissionContext: plan mode, no_grill
    crashes,    \* restarts so far
    outrun      \* history: a begin was written that would be refused by then

files == <<session, tasks, docs, design, approved, contracts, lease, pending>>
vars == <<files, op, client, context, crashes, begun, outrun>>

-----------------------------------------------------------------------------
(* Leases.  Only one entry can be active, and the code reads the active one  *)
(* and the last one; ContractLease models the file with all its entries.     *)

Lease == [id : Nat, actor : Actor, task : Task \cup {NoTask},
          snapshot : Nat \cup {NoSnapshot}, status : LeaseStatus]

NoLease == [id |-> 0, actor |-> "mission", task |-> NoTask,
            snapshot |-> NoSnapshot, status |-> "completed"]

HasActiveLease == lease.status = "active"
IsActive(id) == HasActiveLease /\ lease.id = id

\* Mutant of MayBegin: an execution that is still active is not looked for.
MayBeginBeside(actor, task) ==
    /\ contracts # NoSnapshot
    /\ IF actor = "mission"
       THEN /\ session.stage \in {"task_review", "blocked"}
            /\ tasks[task] \in {"pending", "failed"}
       ELSE /\ session.stage = "ready"
            /\ tasks[task] = "pending"

\* begin: who may take the lease is decided by the stage and the task's status.
MayBegin(actor, task) ==
    /\ ~HasActiveLease
    /\ contracts # NoSnapshot
    /\ IF actor = "mission"
       THEN /\ session.stage \in {"task_review", "blocked"}
            /\ tasks[task] \in {"pending", "failed"}
       ELSE /\ session.stage = "ready"
            /\ tasks[task] = "pending"

\* The entry begin makes of what it has read, before it has an id.
Grant(actor, task) == [id |-> 0, actor |-> actor, task |-> task,
                       snapshot |-> contracts, status |-> "active"]

\* The end of begin, after git has been asked for the working tree: the copy of
\* the file with the new entry replaces whatever is there by now.
WriteLease(entry) ==
    /\ lease' = [entry EXCEPT !.id = begun + 1]
    /\ begun' = begun + 1
    /\ outrun' = (outrun \/ ~MayBegin(entry.actor, entry.task))

EndLease(status) == lease' = [lease EXCEPT !.status = status]

-----------------------------------------------------------------------------
(* Threads. *)

PreparationKind == {"research", "grill", "skip-grill", "approve-design",
                    "approve-execution", "request-amendment",
                    "retry-research", "retry-grill", "retry-design"}
TaskKind == {"prepare-task", "execute-task", "retry-preparation",
             "retry-review"}
Kind == PreparationKind \cup TaskKind

NoOp == [kind |-> "none", pc |-> "idle", held |-> FreshSession,
         lease |-> 0, reason |-> NoReason, more |-> FALSE]
Running == op.pc # "idle"

NoRequest == [pc |-> "idle", held |-> FreshSession, lease |-> NoLease,
              last |-> FALSE, amending |-> FALSE]
Serving(c) == client[c].pc # "idle"

\* Mutant of CasHolds: the store writes without comparing the revision.
LastWriteWins(old) == TRUE

\* FilesystemMissionSessionStore.save: compare the revision, then write.
CasHolds(old) == session.rev = old.rev

\* Mutant of Raised: execute_prepared has no handler.
RaisedUnhandled == NoOp

\* What the coordinator does next when an exception leaves its body: only
\* execute_prepared has a handler, which closes the lease it has begun.
Raised == IF op.kind = "execute-task" /\ op.lease # 0
          THEN [op EXCEPT !.pc = "raise"]
          ELSE NoOp

\* Mutant of Save: a lost race is tried again with the same copy.
SaveRetrying(new, next) ==
    IF CanMove(op.held.stage, new.stage) /\ CasHolds(op.held)
    THEN session' = new /\ op' = next
    ELSE UNCHANGED <<session, op>>

\* _save(op.held, new), raising on an illegal transition or a lost race.
Save(new, next) ==
    IF CanMove(op.held.stage, new.stage) /\ CasHolds(op.held)
    THEN session' = new /\ op' = next
    ELSE UNCHANGED session /\ op' = Raised

\* The action saves `new` and goes on holding it.
SaveAndGo(new, pc) == Save(new, [op EXCEPT !.pc = pc, !.held = new])

\* The action saves `new` and returns.
SaveAndEnd(new) == Save(new, NoOp)

Fail == UNCHANGED session /\ op' = NoOp     \* raises, or returns "rejected"

At(pc, kinds) == op.pc = pc /\ op.kind \in kinds
=============================================================================

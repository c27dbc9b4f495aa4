# HERO Harness: a verification project in TLA+

HERO Harness takes a software mission from an idea to reviewed code. Agents
research, interview, plan and implement; people approve in between; a chat or an
MCP client may implement a task instead of the mission. One worker process per
mission keeps everything in files below the mission directory; a headless
mission runs the same phases in one process that takes commands from stdin, a
web page and Telegram. This project models the parts whose correctness depends
on the *order* in which files are read and written and commands are taken, and
the algorithms that decide what may be executed and merged; it checks the models
with TLC and proves with TLAPS every property they check except liveness and one that uses
ENABLED, from the session file to the merge and the command bus.

Paths below are relative to `src/src/mission_orchestrator/` unless they start with
`docs/` or `README.md`, which are those of the repository.

## 1. Inventory

| component | state it keeps | operations | who touches it |
| --- | --- | --- | --- |
| mission session (`domain/session.py`, `adapters/filesystem/session_store.py`) | `_session.json`: stage, revision, active task, approved snapshot, blocked reason | `move_to`, `touch`, `save` with a compare-and-swap on the revision | both coordinators, the control plane, the contract service |
| preparation coordinator (`application/preparation_coordinator.py`) | none but its lock and the session in hand | save idea, research, Grill, skip Grill, approve design (structure, validate, compile contracts), approve execution, request amendment, retries | action runner; control plane (`request_amendment`) |
| interactive task coordinator (`application/interactive_task_coordinator.py`) | lock, session and lease id in hand | prepare next, execute prepared, finish, reconcile, pause for amendment, retry preparation, retry review | action runner |
| contract execution service (`application/contract_execution.py`) | `contract-executions.json`, a lock per instance | begin, checks, patch, complete (three locked sections), report blocker, propose amendment | coordinator (`TC:64`) and control plane (`CP:457`), one instance each |
| control plane (`application/control_plane.py`) | none | the actions, lease requests, design changes and the amendments they record, documents, commands, views | HTTP threads |
| action runner, server, worker (`adapters/control/http_server.py`, `worker.py`) | the running thread, an in-memory operation registry | accept an action or answer "running", poll, start and stop | HTTP threads |
| design store, changeset, contracts (`adapters/design/`, `domain/changeset.py`, `application/task_contracts.py`, `application/contract_verifier.py`) | `design.db`, approved snapshot, changeset, contract index | apply a change set at a base revision, approve, compile, reconcile | agents, HTTP threads, coordinators |
| WorkPlan and tasks (`domain/workplan.py`, `adapters/filesystem/task_repository.py`) | `tasks.json` | update a status, next runnable, validation | coordinators, contract service, STRUCTURE agent |
| documents (`application/document_service.py`, `adapters/documents/`) | catalogue with revisions, alias files | save, capture an alias, materialise | agents, HTTP threads, preparation |
| command bus and its waits (`adapters/command_bus.py`, signal controller, approval, review coordinator, conversation) | queue with deferred commands, gate mode, audit | publish, take, put back, wait | stdin, web, Telegram; the mission's thread |
| batch orchestrator, task executor (`application/orchestrator.py`, `task_executor.py`) | the pipeline in hand, `tasks.json` | init pipeline, task loop, block, report, resume | command line |
| reconciler and merge gate (`application/reconciler.py`, `domain/reconciliation.py`) | reconciliation | compare the changeset with the observed code | batch orchestrator |
| phase executor, git, code graph | step directories, worktree, code graph | run an agent, commit, extract | coordinators, services |
| Telegram, mission registry | offset file, lock, registry file | poll, dispatch, register | every mission on the machine |
| code questions, MCP, terminal, dashboard | little | questions and views | users |

How they interact. An HTTP request is either an *action*, which the
`AsyncActionRunner` runs in one thread at a time and which holds its
coordinator's lock from start to return, LLM calls included; or a *request*
that is served at once beside the running action. Both write the same files.
There is no transaction over several files; what protects them is the revision
of the session (`session_store.py:31`), the single active lease
(`contract_execution.py:94`) and the stage each operation requires.

What is hard, therefore: interleavings between the action and the requests;
decisions taken on a session, a task list or an artifact read earlier; several
files written one after the other with an exception or a crash between them;
an amendment that arrives at any moment of an execution; and a transition table
that a dozen functions use without having been compared with it as a whole; a
SQLite connection in autocommit mode, where what looks like one operation is
several transactions; five waits that share one command bus and put back what is
not theirs; and a resume that trusts the files it finds.
`PROJECT.json` lists these hazards one by one at the line where they bite.

What makes each component correct:

* session: the stored sessions form one chain of legal transitions, nobody's
  update is lost (`SessionLog`);
* coordinators: the mission executes only under its own lease and for the
  approved contract (unless another begin overtakes its own, section 3); dependencies first; a mission is concluded only on
  completed tasks; no amendment is forgotten; no lease is left behind; no action
  ends in a stage that only an action leaves;
* contract execution: at most one active execution; an execution that ended stays
  as it ended (`LeaseBook`);
* design store: the map never refers to a node that is gone, a revision is one
  recorded batch, a repeated command gets the answer it got;
* documents: what a client was told is saved stays saved; what an agent wrote is in
  the catalogue after its capture, or on record as refused;
* runner and questions: a command runs once while the worker lives; a question
  that fails does not block the next;
* changeset, contracts, reconciliation: everything approved is an operation, is
  already there, or stops the plan; a task completes only on code that the
  verifier has looked at; what is merged is what was approved;
* task loop: it ends, and gives a task up only behind one that failed;
* command bus: commands keep their order through every wait, none is lost between
  two waits, an abort is reached;
* review: a reviewed task is completed on a clean review or by a person;
* Telegram: a command is published at most once.

## 2. Modules

| module | models | role |
| --- | --- | --- |
| `SessionRules` | `domain/session.py` | stages, transition table, `move_to`, `touch`; pure |
| `SessionLog` | the promise of the session store | abstract specification over one variable |
| `MissionState` | the shared files and threads | variables, lease guards, `_save` with its compare-and-swap, exceptions |
| `PreparationCoordinator` | the actions up to READY | one action per step between two visible writes |
| `TaskCoordinator` | preparing, executing, reconciling | the same |
| `ControlPlane` | chat and MCP leases, design changes, amendments | actions of a request thread `c` |
| `Mission` | composes the three, with the runner and crashes | `Spec`, `FairSpec`, properties |
| `MCMission` | small WorkPlans for TLC | |
| `ContractLease` | `contract-executions.json` at the grain of read and write | `Spec`, properties |
| `LeaseBook` | the promise of the contract service | abstract specification |
| `MCContractLease` | one service for all threads | |
| `WorkerState` | what the HTTP threads of a worker share | requests, threads, answers |
| `DesignStore` | `adapters/design/store.py` | apply and approve, statement by statement |
| `DocumentStore` | the document catalogue, its service and the alias | one document |
| `ActionDesk` | `AsyncActionRunner`, `CodeQuestionService` | the services that live in memory |
| `Worker` | composes the three, with clients that repeat commands and restarts | `Spec`, properties |
| `MCWorker` | batches of operations for TLC | |
| `Changeset` | `domain/changeset.py` | pure: design and code to operations |
| `WorkPlan` | `domain/workplan.py` | pure: validity, next task |
| `ContractVerifier` | contracts and their verification | pure |
| `Reconciliation` | what became of each operation, the merge gate | pure |
| `Delivery` | a headless mission from approval to merge | `Spec` with fairness, properties |
| `MCDelivery` | designs, trees and dependencies for TLC | |
| `CommandBus` | commands and the bus | pure |
| `ReviewGate` | what lets a review through | pure |
| `BatchState` | the state of a headless mission, its pipelines | variables, ways of taking a command |
| `Waits` | signals and pause, approval, conversation | actions of the mission's thread |
| `Telegram` | listener, offset, backlog | actions of its thread |
| `Mailbox` | the promise of the command bus and its waits | abstract specification |
| `Batch` | pipelines, task loop, review, restarts; composes these | `Spec` with fairness, properties |
| `MCBatch` | plans and reviews for TLC | |
| `MissionProofs` | TLAPS proofs about `Mission`: types, the session file | |
| `MissionSafetyProofs` | TLAPS proofs about `Mission`: its safety properties | |
| `ContractLeaseProofs` | TLAPS proofs about `ContractLease` | |
| `WorkerProofs` | TLAPS proofs about `Worker`: types, the design map | |
| `WorkerSafetyProofs` | TLAPS proofs about `Worker`: what clients rely on | |
| `DeliveryProofs` | TLAPS proofs about `Delivery` | |
| `BatchProofs` | TLAPS proofs about `Batch` | |

Three compositions stand beside `Mission`: `Worker` EXTENDS the stores,
`Delivery` EXTENDS `Reconciliation`, which EXTENDS `ContractVerifier` (and
`Changeset` below it) and `WorkPlan`; `Batch` EXTENDS `Telegram`, `Waits`,
`BatchState` in turn. They are separate specifications because they meet in files
that each of them sees as one value: `Mission` has the revision of the design map
that `Worker` writes, `Batch` has the plan that `Delivery` judges. `Mission`
assumes one running action (its `op`); `ActionsRunOnce` of `Worker` is that
assumption.

### State and code: the interactive mission

`session` is `_session.json`; `active_phase` and `pending_interaction_id` are
screen labels and are dropped, `blocked_reason` is reduced to the tag the code
looks for. `tasks` is the status of each task of `tasks.json`. `docs` records
which documents have a revision, `design` the revision of `design.db`,
`approved` and `contracts` the revision from which the approved snapshot and the
task contracts were made, `pending` whether `_amendment_pending.json` exists. In
`Mission`, `lease` is the newest entry of `contract-executions.json`: the code
asks only for the active entry, which is always the newest: `OnlyNewestIsActive`
proves it of the whole file, however many services write it without a common lock.
`begin` is two steps, what it reads (`RequestLease`, `RequestExternal`) and the write
of the whole file after git has been asked (`TakeLease`, `BeginExternal`). The
coordinator's service and the control plane's have a lock each, so that one side may
write between the two steps of the other; `begun` numbers the executions (the code has
a uuid), and `outrun` records that a begin was written which would have been refused by
then.

`op` is the running action: where it is (`pc`), the session object its thread
passes along (`held`), the lease it has begun, and the two locals it uses later
(`reason`, `more`). `client[c]` is the same for a request thread. A step ends
wherever the other threads can see a write, so between any two writes of one
operation every other thread may run. `Save` (`MissionState`) is
`_save`/`store.save`: an illegal transition or a lost compare-and-swap is an
exception, and `Raised` says where the exception goes: `execute_prepared` has a
handler that closes its lease, everything else ends.

An agent is reduced to what the code tells apart: it wrote its documents or not,
blocked or not, changed the design or not. A verifier, a gate or a reviewer is a
choice of its verdict. STRUCTURE rewrites the statuses of `tasks.json` and may
keep tasks that are completed; dependencies are constant.

### State and code: the worker's stores

`map`, `revision`, `log` and `snapshots` are `design.db`; `versions` and `writes`
are `documents.db` for one document, `alias` its file. `thread[t]` is an HTTP
thread: the command it serves, the revision it read, its uncommitted copy of the
map. A step ends at each statement that other connections can see or that reads
what they write. The connection is in autocommit mode, so `LookUp`,
`CompareRevision`, the batch (a savepoint that is the outermost transaction: its
RELEASE commits) and `Record` (revision and log) are four transactions. A batch
that finds another one in its savepoint gets "database is locked" or comes after.
`approve` is three reads. A document is saved in one transaction and its alias
written after; `phase` is an agent that writes the alias and the capture that
follows. `runner` and `slot` are in memory and a restart empties them; `answers`
is what clients were told, which nothing empties. An agent's own batches
(`GraphPropose`) use the same `apply`: a "thread" is whoever holds a connection.

Facts about the code that the model shows and no property claims otherwise: after
a crash between `Release` and `Record` the map is ahead of its revision and the
repeated command is refused by its own effects; `approve` may read nodes and edges
of two revisions; an alias not written before a crash is not written when the
command is repeated, and the next capture then commits the old text as a newer
revision; a capture whose content was captured before is answered DUPLICATE and
leaves a newer head in place.

### State and code: delivery

`Delivery` is the part of a headless mission that decides on data. `Changeset`,
`ContractVerifier`, `WorkPlan` and `Reconciliation` translate the pure functions;
a node's place is reduced to how the design gives it (drawn exactly, by a label, by
its parent, not at all), a declaration to absent, wrong or right, inheritance to
pairs. `stage` is where the process is; the variables between are its files. An
agent may leave the working tree in any of `Codes`. `Resume` is a new process with
`--resume`: with a `tasks.json` it starts at the tasks. A mission whose design store is
empty goes without approval and changeset (`GoWithoutMap`, `orchestrator.py:103`): its
plan is not validated, there are no contracts, and its merge gate is open
(`orchestrator.py:170`), so it is merged with its failed tasks, as
`test_task_failure_does_not_abort_next_task` (`tests/application/test_orchestrator.py`)
expects. `MergedIsDelivered` and `OnlyValidPlansRun` speak of missions with a changeset.

Facts: a contract requires every node its task covers to exist, one to be removed
too, so a plan with a removal never completes the task that removes; the gate reads
the `contract-verification.json` of the last task verified, so a mission whose
hard edges belong to two tasks is not merged; SPEC mode has no structure phase and
always ends in "tasks.json missing" (`Load`); an edge with the intent CHANGE, which
the store accepts, is dropped by the compiler without an issue, which
`NothingApprovedIsLost` excepts.

### State and code: the headless mission

`Batch` is the same process seen by the people who send it commands. `bus` is the
queue and its deferred list, `pc` where the mission's thread is, `back` where
`check_signals` returns to, `held` and `paused` the lists a wait and a pause within
it have set aside. Each wait is one group of actions, one action per thing it may
find at the head of the bus: acted on, dropped, set aside, or put back at once
(`ReplyOther`). `updates`, `offset` and `hand` are Telegram's server and the
listener, which moves its offset before it handles an update. `gone` are the
commands taken for good, or lost with a process.

Facts: ABORT in a conversation closes it like DONE; the review waits drop commands
that are not for them, where `check_signals` and the approval keep theirs; a RETRY
at the manual gate completes the task on whatever the new review says, and one in the
review loop on an APPROVED that is not taken to the gate (`review_coordinator.py:174`),
also if the gate is manual by then; an answer
Telegram refuses raises out of the listener's loop and ends its thread; the
persisted offset is written and never read (`TelegramOffsetStore.read` has no
caller); receipts of an earlier task are not deleted when the next is taken
(`task_executor.py:21`), so they satisfy its obligation.

### What is abstracted, and assumptions

* An action the code refuses changes nothing and is not a step. Exceptions of the
  file system, of git and of SQLite are not modelled; those of the code are.
* "mcp" leases follow the code of "chat" leases except for the recorded checks,
  and `Mission` treats them alike; `ContractLease` distinguishes them.
* Two instances of the contract service exist, with separate locks. Within one
  instance `ContractLease` models the lock and every read and write. Between the
  two, `Mission` cuts `begin`, which asks git in between, and `complete`, which runs the
  verifier; report blocker, propose amendment, checks and patch read and write in one
  step there, so an update one of *these* loses between the instances is not explored.
* HTTP clients begin as "chat" or "mcp" and name only executions one of them began.
  The server does not see to it: it takes the actor from the body
  (`http_server.py:281`, `control_plane.py:132`), and `_require_active` checks none.
  Nothing in the repository sends "mission" there.
* `TaskRepository.update` is one step in `Mission`; its own race is not modelled.
* `save_idea` is reachable only inside the process (tests call it); it stands for
  it and for `save_brief_seed`.
* A crash ends all threads and keeps all files. The code has no recovery action,
  so RESEARCHING, EXECUTING and the like remain after a crash: properties about
  stages that an action must leave are stated for missions without a crash.
* `Worker`: resolution against the code graph, history and the map diff are
  read-only and left out; of a node's fields only the parent matters.
* `Delivery`: how signatures and docstrings are compared is one of three outcomes
  of a declaration; designs are two levels deep; the phases of a task up to its
  accepted review are one step, the phases themselves are `Batch`'s.
* `Batch`: a mission started without `--no-grill` and without a token budget. All
  reasons for which a phase fails are "phase"; bursts are one step; a receipt is
  chosen with the review it is read for. `consolidate_tasks` (one more choice of the
  plan, in `Delivery`), `_state.json`, the compaction's effect on prompts and the flag `_waiting_approval` change nothing
  the properties tell apart. One process holds a Telegram token (`lock.py`), so the
  lock is not an action. A restart is with `--resume` in the same mode; the gate is
  what the command line says again.
* `Batch` publishes commands only while the thread takes some, and edits the map
  only while it may still be approved: earlier, a command would lie on the bus
  unread; later, an edit is not read. Both commute with the steps in between.

## 3. Runs

| run | instance | question | result |
| --- | --- | --- | --- |
| `mission` | 2 tasks (1 depends on 2, 2 has a REVIEW), 1 HTTP thread with chat leases, 1 design change, 1 crash, 2 leases | is every safety property kept by any interleaving of an action, requests and a crash? | holds |
| `live` | 1 task, 1 HTTP thread, fairness | do accepted actions return and requests get answered? | holds |
| `lease` | 2 threads, 2 executions, 3 code versions, chat and MCP | is the lease file safe at the grain of its reads and writes? | holds |
| `stores` | 3 threads (HTTP or agent), 2 commands sent twice, 2 nodes, 4 batches, 2 texts, 1 phase at a time, 1 restart | do the stores keep what clients were told, across repeats, conflicts, failures and a restart? | holds |
| `verdict` | a module and two classes, 13 designs or none, 11 trees, 2 tasks, 4 dependency shapes, 1 resume | is what is merged what was approved, and does every mission end? | holds |
| `batch` | full, explore and spec missions, 2 tasks, 3 commands of any kind or Telegram posts or restarts | do commands and reviews keep their promises at every wait? | holds |
| `sole_owner` | as `mission`, smaller | is the coordinator the only one to advance the session under an action? | violated |
| `amendment_stuck` | 1 task, 1 HTTP thread | does an execution that notices a design change reach review? | violated |
| `stale_checks` | 1 thread, 1 execution, 2 code versions | had accepted code passed its checks? | violated |
| `design_cas` | as `stores`, 2 threads, no restart | is a revision of the design one batch? | violated |
| `resume_unvalidated` | as `verdict` | is an executed plan a validated one? | violated |
| `abort_lost` | a focused mission | does a taken abort end the mission? | violated |

`mission` checks:

* `TypeOK`.
* `ImplementsSessionLog`: the session file refines `SessionLog`, although four
  components save copies they read before calling an agent.
* `MissionOwnsExecution`: while phases of a full mission run, the active lease is
  its own, for the task and the snapshot of the session, unless a begin was written
  that would have been refused by then (`outrun`).
* `ContractsMatchSession`: approved snapshot, contracts and session name one
  design revision from WORKPLAN_REVIEW on, even after a crash between the three
  files.
* `DependenciesFirst`: whatever chats completed and amendments rewrote, the task
  in hand has its dependencies.
* `RetryReviewFindsFailedTask`: three files agree when a review has blocked;
  `retry_review` begins a lease on the strength of that. Again unless `outrun`: a chat
  whose begin was late can complete the task.
* `AmendmentConsumedInReview`: `_amendment_pending.json` goes only once the
  session has stopped for review.
* `CompletedLeaseHasCompletedTask`, `ExecuteReleasesLease`,
  `MissionConcludesOnCompletedTasks`.
* `NoOrphanStage`: an action that still holds the session it saved, and its lease,
  does not end in a stage that only a running action leaves.
* `OnlyItsRetryUnblocks`: a blocked mission goes on by the retry of what blocked it,
  and neither by a chat, nor an amendment, nor an action that began before. It follows
  that a mission blocked in the Grill, in STRUCTURE, by its WorkPlan, changeset or
  contracts, in an implementation, in the reconciliation or for want of a runnable
  task stays blocked: the retries that exist for some of these step back along edges
  the table does not have.

The exemption for `outrun` is the race of the two locks: a chat that read READY with no
lease writes its entry over the one the mission has begun meanwhile, or the other way
round, and two of them implement at once. SPEC.md (CDE-008, of
`docs/hero-v2/specs/contract-driven-execution/`) says "A second implementation attempt
is rejected until the first is completed, blocked, or explicitly handed off", which the
code does not keep. The two properties say that nothing else breaks the ownership; all
the other ones hold after such a begin too: no lease is left behind, none is closed as
completed without a completed task, and the session file stays a log.

`MissionConcludesOnCompletedTasks` speaks of steps of the mission's own actions. Two ways in which the
session can become COMPLETED with unfinished tasks lie outside it and are known:
a chat decides "all completed" before it reads the session, and a re-STRUCTURE
in between may reopen tasks; and a mission that only plans takes no lease, so a
chat can complete the last task while another has failed.

`live` checks `ActionsEnd` and `RequestsAnswered`; `lease` `SingleActiveLease` and
`ImplementsLeaseBook`.

`stores` checks:

* `MapIsClosed`: only the order of checks and deletions in a batch keeps edges and
  parents inside the map; there are no foreign keys.
* `RevisionsAreRecorded`: every revision has on the log a batch that was applied on the
  one before, and no refused batch took a revision, however many clients propose at
  once (that two may share one is `design_cas`).
* `AnswersAgree`, `SavedTextIsVersion`: a client that repeats a command, before or
  after a restart, hears the same revision, and finds its text there.
* `OnlyAgentsDraft`: a text that is no version gets into the document by an agent only;
  a save or a capture puts a version there, whatever conflicted.
* `CaptureIsAccounted`: when a phase ends, its text and the document's are in the
  catalogue, or the catalogue has on record that it refused the capture because a
  person saved meanwhile. That the refused text stays in the alias, which no version
  has then, is what the code does.
* `ActionsRunOnce`, `SlotIsNotLeaked`: the runner and the question slot.

`verdict` checks:

* `NothingApprovedIsLost`: a changed node, a new or removed edge is exactly one
  operation, or is there already, or is an issue that stops the plan.
* `CompletedWasVerified`: no path to a completed task leads around the verifier
  once the plan was accepted.
* `MergedIsDelivered`: also with unvalidated plans, resumes and a tree that changed
  after its verification, a merge of a mission with a changeset has all tasks completed and every hard operation
  visible in the code.
* `BlockedBehindFailure`, `TasksEnd`: tasks are given up only behind a failed one,
  and the loop ends, whatever plan a resume finds.
* `WorkAdvances`: why it ends. A settled task stays as it was settled, also over a
  resume, and every other step settles a task or moves the stage forward.

`batch` checks:

* `OrderKept`: what waits set aside, and the bus, is in order of publication and is
  all that was not taken: nothing is lost between two waits.
* `ImplementsMailbox`: the bus, and the lists that five waits set aside and put back
  one inside another, refine one mailbox: a command is kept as it was sent and in its
  place until it is taken, once, and none is taken past an earlier ABORT.
* `AbortHeard`: an abort on the bus is taken, whatever is in front of it. The
  conversation is excepted: `_human_reply` takes and puts back the same command
  over and over, and does not see what is behind it.
* `CompletedIsAccepted`: every way from a review to "completed", by verdict, person,
  retry or rework, under a gate that changes meanwhile. An approval that nobody confirms
  passes a manual gate only as the answer to a person's RETRY.
* `DeliveredOnce`: an update is published at most once, and by the process that was
  there when it was posted.

### Bounds

`MaxRevision` stops *new* actions once the session is that old; a running action
always finishes. Fourteen revisions take a mission from the idea through
STRUCTURE into the execution of its first task and back to READY, or through one
amendment. One design change, at any moment, is enough for
each check of the artifact to miss or see it; two leases let a chat and the
mission, or two chats, follow each other; one HTTP thread because two of
them exclude each other on every lease operation (`ContractLease` has two) and
touch different files otherwise. `live` is smaller because TLC's liveness
check is: one task already waits at every lock. CHECK_DEADLOCK is off because
the mission may stop: it may be completed, or wait for its people for ever; so it
is in the other runs.

`stores`: a race needs two threads, a third one runs beside both or repeats what they
do; a repeat needs two sends, and the second command is the one that changes the store
in between; the batches build, remove, are refused half way because of what they did
themselves, and change. Nothing keeps writers of one store apart. `verdict`:
three nodes give every relation an end inside and outside the task; two tasks give
a cycle, an unknown dependency and an order against the file; one resume meets every
file left behind. `batch`: three events are enough for one command in front of an
abort and a pause around both; more modes than three are too slow. The pipelines of
simple, plan and hotfix are prefixes or parts of these in all that takes commands;
`abort_lost` runs focused.

### Fairness

`FairSpec` assumes weak fairness of the running action and strong fairness
of each request thread. Both are operating system threads. Agents have timeouts
(`EndResearch` and its like are enabled until they happen), and a request that
needs the coordinator's lock finds it free again and again, because every action
ends, but not continuously, because people may start the next one at once: hence
the strong fairness. Nothing is assumed of people, of agents proposing design
changes, or of crashes.

`Delivery` assumes weak fairness of the mission's steps: its process runs on, and
every phase has a limit of turns and of time. `Batch` assumes weak fairness of the
mission's thread only: not of the listener, nor of people.

### Findings

The violation runs each refute a sentence of the repository; `PROJECT.json`
quotes them.

1. `sole_owner`: a chat that completes its task touches the session during
   TASK_PREPARATION, so the coordinator's next save raises a conflict
   and the stage remains, though CDE-D018 calls the coordinator the only owner.
2. `amendment_stuck`: an amendment noticed in RECONCILING asks for a transition
   to PAUSED that the table does not have; the mission stays in RECONCILING.
3. `stale_checks`: a patch after the configured checks leaves their result in
   place, and `complete` accepts the patched code on it.
4. `design_cas`: two batches with one base revision both pass the comparison, which
   is read before the transaction; both are applied as the same revision.
5. `resume_unvalidated`: a resume with a `tasks.json` skips validation and contracts,
   so a plan that was refused is executed and its tasks complete unverified.
6. `abort_lost`: `_review_loop` ignores what `_wait_resume_or_abort` returns; an abort
   sent in a review's pause ends the pause only.

Two more facts came up in `Mission`, which make steps that cannot happen or labels
that are wrong rather than a broken property. After `_pause_for_amendment` the
result is in AMENDMENT_REVIEW, but `_close_mission_execution`
(`interactive_task_coordinator.py:294`) looks for PAUSED, so an amendment closes its
lease as completed. And `retry_blocked` steps back from BLOCKED to RESEARCH_REVIEW,
`retry_design` to DESIGN_REVIEW; neither edge is in the table, so both always raise.

## 4. Proofs

### The session file

`MissionProofs` proves, for every WorkPlan, every set of HTTP threads and all
bounds, from the assumptions on the constants in `SessionRules` and
`MissionState`:

* `MissionIsTyped`: `Spec => []TypeOK`;
* `SessionIsLog`: `Spec => ImplementsSessionLog`.

The difficulty is that nearly every save is made from a session read long before.
The inductive invariant is

    MissionInv == TypeOK /\ Chain /\ ReasonedOp(op) /\ (\A c : LicensedRequest(client[c]))

`Chain`: the stored session and every copy in a thread's hands are ordered by
revision, and a copy of the stored revision *is* the stored session. So a save
that passes the compare-and-swap is made from the stored session, and what
`move_to` or `touch` does to the copy it does to the file. `LicensedRequest`: a
request about to save has checked the table on its copy, not on the file.
`ReasonedOp`: a block knows its reason. Lemmas treat the ways of making a session
(`MoveToSucceeds`, ...), a step in general (`StepKeeps`), the coordinator's save,
raise and move (`SaveKeeps`, `OpRaises`, `OpMoves`) and a request's move
(`ClientMoves`); each action of `Next` then has one short lemma, which also shows
that the step is a step of `SessionLog` or leaves the session alone.

### The mission

`MissionSafetyProofs` proves, from the same assumptions, all safety properties of
`Mission` that the runs check. Invariants:

* `ExecutionIsOwned`: `Spec => []MissionOwnsExecution`;
* `ContractsAreTheSessions`: `Spec => []ContractsMatchSession`;
* `DependenciesComeFirst`: `Spec => []DependenciesFirst`;
* `RetriedReviewHasFailed`: `Spec => []RetryReviewFindsFailedTask`;

(the first and the last as far as no begin was overtaken, which their formulas say) and
properties of the steps:

* `AmendmentIsConsumedInReview`: `Spec => AmendmentConsumedInReview`;
* `CompletedLeaseIsEarned`: `Spec => CompletedLeaseHasCompletedTask`;
* `ExecutionReleasesLease`: `Spec => ExecuteReleasesLease`;
* `ConclusionIsEarned`: `Spec => MissionConcludesOnCompletedTasks`;
* `NoStageIsOrphaned`: `Spec => NoOrphanStage`;
* `BlockedWaitsForItsRetry`: `Spec => OnlyItsRetryUnblocks`.

None of them is inductive, and none can be proved of the files alone: an action
decides on what it read several steps before, while HTTP threads go on. They share
one inductive invariant,

    SafeInv == MissionInv /\ World /\ ThreadOK(op) /\ Served

`World` is what the stored stage says of the contracts, the tasks and the lease.
`ThreadOK(op)` is about the running action: where it is and the stage of the copy it
holds there (`PlacedOp`), how far requests can have taken the stored session without
it (`Follows`: from a review to AMENDMENT_REVIEW, or to the end of the mission, and
nothing else), and what it found and relies on. `Served`: what a request that serves a
lease relies on. What they say of a lease that somebody holds is said under `~outrun`; a
lease that the action has begun may be gone from the file, but if it is there it is as
it was begun (`Leased`). `Honest` is what a step from such a state may not do, the step
properties among it; each action has a lemma for `SafeInv'` and `Honest` together.
`Follows` is the point: when the action's save passes, the copy is the file
(`Chain`), and when it does not, the file is in one of the two stages that no
conclusion of the action contradicts.

`BlockedWaitsForItsRetry` needs the same: an action that does not hold the stored
session cannot save, one that does saves along an edge of the table, and of the edges
out of BLOCKED each belongs to one retry, whose guard has looked at the reason
(`PreparationUnblocks`, `TaskUnblocks`); a request has no edge out of BLOCKED at all
(`RequestsLeaveBlocked`).

A session has no reason as a value of its own (`NoReason`) rather than as an
empty string: the model's strings are opaque to the provers.

### The lease file

`ContractLeaseProofs` proves, for every number of threads, services, executions and code
versions:

* `LeaseIsTyped`: `Spec => []TypeOK`;
* `OnlyNewestIsActive`: an active execution is the last of the file (no property of a
  run: it is what allows `Mission` to keep the newest entry only);
* `LeaseIsSingle`: `Spec => []SingleActiveLease`;

and, when all threads call one service (`OneService`, as the HTTP threads of a worker
do; the coordinator's service is another one, and what becomes of the file between the
two is `Mission`'s subject):

* `FileIsLeaseBook`: `Spec => ImplementsLeaseBook`.

The first three do not need the lock: whoever writes, writes a copy it has read with an
entry changed or added. The invariant is

    CopiesInv == TypeOK /\ NewestOnly(book) /\ NewestOnly and Saw of every copy held

where `Saw` is what the thread found in its copy (no active lease, or its own lease
active). Refinement needs the copy to be the file:

    LeaseInv == CopiesInv /\ Exclusive /\ Fresh

`Exclusive`: one thread is in a section. `Fresh`: hence the copy it read is still the
file when it writes. A step has one of four shapes (`Enters`, `Waits`, `Begins`,
`Updates`); refinement is one lemma per kind of write (`UpdateRefines`,
`AppendRefines`); all else leaves the visible file alone.

### The worker's stores

`WorkerProofs` proves, for every set of threads, commands, nodes, texts and batches,
from `WorkerAssumption` (batches are sequences of operations, the placeholders are
no values, the bounds are numbers):

* `WorkerIsTyped`: `Spec => []TypeOK`;
* `MapStaysClosed`: `Spec => []MapIsClosed`.

The race of `design_cas` breaks the count of revisions, never the map. `MapIsClosed` is
about the stored map, which a commit replaces by the copy that a thread has been
changing for several steps. The inductive invariant `WorkerInv`
therefore has the copy of every thread closed at every operation (`ThreadsInv`), with
the kind of request a thread serves at each place of its code (`Placed`), beside the
types of each store. `OperationKeepsMap` is the heart: whichever of the operations is
let through, a closed map stays closed, which is where the refusals of `remove_node`
and `add_edge` and the parent rules are needed.

`WorkerSafetyProofs` proves what clients rely on, for any number of writers at the same
time and from no other assumption on them than `CaptureAssumption` below:

* `AnswersAreRepeated`: `Spec => []AnswersAgree`;
* `SavesAreVersions`: `Spec => []SavedTextIsVersion`;
* `RevisionsAreKept`: `Spec => []RevisionsAreRecorded`;
* `ActionsRunAlone`: `Spec => ActionsRunOnce`;
* `DraftsAreAgents`: `Spec => OnlyAgentsDraft`;
* `CapturesAreKept`: `Spec => CaptureIsAccounted`.

`RecordsLast` is the base: no step, a restart included, changes a body that was
sent, an outcome in the log, a row of the catalogue's commands or a version. So what
an answer says of the record (`AnswersRecorded`), and the record of the versions
(`SavesKept`), stays true; `SavesHeld` carries it through the step between the
catalogue and the alias, where the answer is still in the thread. `RunnerInv`: only
the active operation runs, so one that is not busy runs none.

A batch may be recorded when the revision it compared is long gone, so `RevisionInv`
does not say that the revision is still the thread's: it says that the thread's was
reached (`Reached`: up to it each revision has its batch on the log), which nothing takes
back, and that it was compared with the base (`RevisionHeld`). The revision the thread
writes is then reached as well, though it may be lower than the one it replaces.
`DocumentInv` has the same shape for a capture: it was applied or refused
(`CapturesKept`), and from its first read on the document holds its text or a version
written over it (`PhaseHolds`).

`CaptureAssumption` (`DocumentStore`): no client sends a command whose id is one that
`capture_alias` makes, `capture:<document>:<hash>` (`document_service.py:114`). The
catalogue has one table for both and would take such a save for the capture.

### Delivery

`DeliveryProofs` proves, for every number of tasks, every set of designs, trees and
dependencies and any number of resumes, from `NodeAssumption`, `TaskCountAssumption`,
`DeliveryAssumption` and `EdgeAssumption` (an edge's key is unique, `store.py:48`):

* `DeliveryIsTyped`: `Spec => []TypeOK`;
* `ChangesAreAccounted`: `Spec => []NothingApprovedIsLost`;
* `MergeIsDelivered`: `Spec => []MergedIsDelivered`;
* `BlockedFollowsFailure`: `Spec => []BlockedBehindFailure`;
* `CompletionIsVerified`: `Spec => CompletedWasVerified`;
* `WorkIsNotRedone`: `Spec => WorkAdvances`;

and of the operators of `WorkPlan`, for every plan and every state of its tasks:

* `SomeTaskIsNext`: no task is next exactly when none is ready;
* `AcceptedPlansProceed`: while tasks of a valid plan are pending, one of them is next
  or one is pending behind a task that failed or was blocked.

The inductive invariant is

    DeliveryInv == StagesAgree /\ DataAgrees /\ BlockedHasReason /\ EvidenceIsFresh
                      /\ MergedIsDelivered

`DataAgrees`: the changeset is the one compiled from the approved design, and where
there are contracts the plan is valid for it. A resume with another process does not
change that, though it may leave `contracted` false, which is why two of the
theorems speak of accepted plans only. `EvidenceIsFresh`: what a verification says
of an edge is so in the code as it is now, because whoever may change the code is
behind a step that deletes the verification. With it the merge gate, which only reads
a file (`OpenGateDelivers`), delivers. `NoRingOfBlocked`: a valid plan has no cycle,
so among tasks given up there is one that waits for none of the others.
`NodeIsAccounted` and `EdgeIsAccounted` are about the compiler alone.

For `DeliveryIsTyped`, `ProcessTyped` and `FilesTyped` are inductive on top of it.

The next task is the first ready one of the file, so the two facts about plans need a
least element; `LeastNumber` takes it from the library's well-foundedness of the natural
numbers, without an induction over an operator. `WorkAdvances` needs no valid plan, but
the task in hand to be pending (`StagesAgree`): a failure, a verdict or a block then
settles one that was not settled. With `Forward`, whose chains are short, it bounds the
steps of a mission; that they are taken is `TasksEnd`, which TLC checks.

### The headless mission

`BatchProofs` proves, for every mode, plan, reviewer and all bounds, from
`BatchAssumption` and `MaxCommandsAssumption` on the constants:

* `BatchIsTyped`: `Spec => []TypeOK`;
* `CommandsKeepOrder`: `Spec => []OrderKept`;
* `CompletionIsAccepted`: `Spec => CompletedIsAccepted`;
* `UpdatesAreDeliveredOnce`: `Spec => DeliveredOnce`;
* `BusIsMailbox`: `Spec => ImplementsMailbox`.

The inductive invariant has one part for the variables of each actor:

    BatchInv == Queues /\ Place /\ Files /\ Audited /\ Listening

`Queues`: what is set aside by a pause, by an approval and on the bus is together in
the order of publication, and a queue is only kept where its owner waits; without the
last, an order could be undone when a wait puts its commands back. `Place`: where the
thread is and what is left of its pipeline; a reviewed task's pipeline ends with the
review, hence no task is accepted by running out of phases. `Audited`: the verdict the
thread acts on has passed the gate, though it is used two steps later. `Listening`: the
update in hand is the last one taken from the server, was posted in this life, and is
not delivered; everything delivered is behind the offset.

`BusIsMailbox` maps the mailbox to `Kept`: what an approval has set aside, then what a
pause within it has, then the bus. Every step moves a command between these parts without
changing their concatenation, appends to it, removes one element of it, or is the end of
the process (`KeptMoves`); which of the four is shown with `Queues`, action by action.
That nothing is taken past an ABORT is `Tame`: a wait never sets an ABORT aside, so what
is in front of the head of the bus holds none.

TLC checked `SafeInv`, `BatchInv` and the invariants of `WorkerSafetyProofs` on the
instances of the runs before any of them was proved.

### What is only model-checked

Liveness (`ActionsEnd`, `RequestsAnswered`, `TasksEnd`, `AbortHeard`) and
`SlotIsNotLeaked`, which uses ENABLED: both are out of the prover's reach. Every
other property of a passing run is proved: 34 of 39. Of two of these the safety half is
proved: `WorkAdvances` of `TasksEnd`, and that the mailbox takes nothing past an ABORT
of `AbortHeard`. The expected violations are TLC's.

## 5. Not modelled, and the plan

Next, in order:

1. `TaskFile`: two writers of `tasks.json` by index and a STRUCTURE agent that
   replaces the file between their load and their save.
2. Larger instances of `Batch`: plan and hotfix missions, a second conversation turn.

Not modelled, and why:

* Prompts, model choice, budgets, retries of the providers, tool calls: input and
  output of agents, which the models replace by what an agent may leave behind.
* Extraction of the code graph, comparison of signatures and docstrings, progressive
  review, prose of reports: computation over text, with no state of its own.
* git, the workspace's directories and the mission registry: `write_text` replaces a
  file atomically, which is why one file is one step of every model; the registry is
  one file shared without a lock, but it only informs `/missions`.
* Logs, the dashboard, the terminal, views, MCP transport, authorisation: read-only or
  append-only, nothing in the workflow reads them back.
* Memory, skills and cases: text given to prompts.
* Old files: migration of earlier catalogues and of legacy sessions.

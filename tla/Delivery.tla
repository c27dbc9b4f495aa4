------------------------------ MODULE Delivery ------------------------------
(***************************************************************************)
(* A headless mission (application/orchestrator.py, task_executor.py) from    *)
(* the approval of its design to the merge gate: the changeset is compiled,   *)
(* an agent plans it, tasks are implemented and verified one by one, and the   *)
(* gate compares what was approved with what is observed.  A mission may be    *)
(* killed, or end without a merge, and be resumed.  One whose design store is  *)
(* empty has no changeset: nothing validates its plan, and its gate is open.  *)
(***************************************************************************)
EXTENDS Reconciliation

CONSTANTS
    Designs,      \* the designs a person may approve
    Codes,        \* the states an agent may leave the code in
    Deps,         \* the dependencies an agent may write: [Task -> SUBSET ids]
    Unknown,      \* an operation that is not in any changeset
    MaxResumes    \* bound: times the mission is started again

ASSUME DeliveryAssumption ==
    /\ Designs \subseteq Design /\ Codes \subseteq Code
    /\ Deps \subseteq [Task -> SUBSET (Task \cup {Stranger})]
    /\ MaxResumes \in Nat

\* design_edges has the key (source, target, relation).
ASSUME EdgeAssumption ==
    \A d \in Designs : \A e, f \in d.edges : EdgeOf(e) = EdgeOf(f) => e = f

VARIABLES
    stage,         \* where the mission's process is
    code,          \* the working tree
    design,        \* approved_snapshot.json
    changeset,     \* changeset.json
    plan, status,  \* tasks.json
    contracted,    \* task-contracts/index.json exists
    current,       \* the task in hand, 0 when there is none
    verification,  \* contract-verification.json
    resumes

files == <<code, design, changeset, plan, status, contracted, verification>>
vars == <<stage, files, current, resumes>>

NoDesign == [node |-> <<>>, edges |-> {}]
NoChangeset == [operations |-> {}, skipped |-> {}, issues |-> {}]
NoPlan == <<>>
NoVerification == [passed |-> FALSE, verified |-> {}]
AllPending == [t \in Task |-> "pending"]

\* changeset.json exists; it is written with approved_snapshot.json.
HasChangeset == design # NoDesign

Init ==
    /\ stage = "approval" /\ code \in Codes
    /\ design = NoDesign /\ changeset = NoChangeset
    /\ plan = NoPlan /\ status = AllPending
    /\ contracted = FALSE /\ current = 0
    /\ verification = NoVerification /\ resumes = 0

-----------------------------------------------------------------------------
(* _run_init_pipeline: approval, structure, validation. *)

\* The code graph was built when the mission started.  Issues are only notified.
ApproveAndCompile ==
    /\ stage = "approval"
    /\ \E d \in Designs : /\ design' = d
                          /\ changeset' = Compile(d, Observed(code))
    /\ stage' = "structure"
    /\ UNCHANGED <<code, plan, status, contracted, verification, current, resumes>>

\* The design store has no nodes: nothing is approved and nothing compiled.  What
\* an earlier start of the mission compiled stays.
GoWithoutMap ==
    /\ stage = "approval"
    /\ stage' = "structure"
    /\ UNCHANGED <<files, current, resumes>>

\* What an agent may write, in the phase or, without a changeset, when it is told
\* afterwards to write fewer tasks (consolidate_tasks): for each task, what it covers
\* and what it waits for.
Plans ==
    {[t \in Task |-> [covers |-> covers[t], deps |-> deps[t]]] :
        covers \in [Task -> SUBSET (changeset.operations \cup {Unknown})],
        deps \in Deps}

Structure ==
    /\ stage = "structure"
    /\ plan' \in Plans
    /\ status' = AllPending
    /\ stage' = "validation"
    /\ UNCHANGED <<code, design, changeset, contracted, verification, current,
                   resumes>>

\* _validate_structure.  The contracts are compiled of a plan that passed.  Without
\* a changeset any plan passes, and there are no contracts.
ValidateStructure ==
    /\ stage = "validation"
    /\ \/ /\ ~HasChangeset
          /\ stage' = "tasks" /\ UNCHANGED contracted
       \/ /\ HasChangeset
          /\ PlanIsValid(changeset.operations, plan) /\ changeset.issues = {}
          /\ stage' = "tasks" /\ contracted' = TRUE
       \/ /\ HasChangeset
          /\ ~(PlanIsValid(changeset.operations, plan) /\ changeset.issues = {})
          /\ stage' = "blocked" /\ UNCHANGED contracted
    /\ UNCHANGED <<code, design, changeset, plan, status, verification, current,
                   resumes>>
-----------------------------------------------------------------------------
(* The loop over the tasks. *)

TakeTask(t) ==
    /\ stage = "tasks" /\ IsNext(plan, status, t)
    /\ current' = t /\ stage' = "implement"
    /\ verification' = NoVerification
    /\ UNCHANGED <<code, design, changeset, plan, status, contracted, resumes>>

\* The phases up to the accepted review, whatever they do to the code.
Implement ==
    /\ stage = "implement"
    /\ code' \in Codes
    /\ stage' = "completion"
    /\ UNCHANGED <<design, changeset, plan, status, contracted, verification,
                   current, resumes>>

\* Mutant of FailTask: the failed task stays in hand.
FailTaskInHand ==
    /\ stage = "implement"
    /\ code' \in Codes
    /\ status' = [status EXCEPT ![current] = "failed"]
    /\ stage' = "tasks"
    /\ UNCHANGED <<design, changeset, plan, contracted, verification, resumes,
                   current>>

\* Mutant of FailTask: the task is put back in the queue.
FailTaskRequeued ==
    /\ stage = "implement"
    /\ code' \in Codes
    /\ current' = 0 /\ stage' = "tasks"
    /\ UNCHANGED <<design, changeset, plan, status, contracted, verification, resumes>>

\* A phase that blocks, or a review that is rejected, also after its changes.
FailTask ==
    /\ stage = "implement"
    /\ code' \in Codes
    /\ status' = [status EXCEPT ![current] = "failed"]
    /\ current' = 0 /\ stage' = "tasks"
    /\ UNCHANGED <<design, changeset, plan, contracted, verification, resumes>>

TaskContract == Contract(design, plan[current].covers)

\* Mutant of CompleteTask: an unsatisfied contract does not fail the task.
CompleteTaskUnverified ==
    /\ stage = "completion"
    /\ verification' = IF contracted THEN Verify(design, code, TaskContract)
                                     ELSE verification
    /\ status' = [status EXCEPT ![current] = "completed"]
    /\ current' = 0 /\ stage' = "tasks"
    /\ UNCHANGED <<code, design, changeset, plan, contracted, resumes>>

\* complete_task.  Without contracts there is nothing to verify.
CompleteTask ==
    /\ stage = "completion"
    /\ LET result == Verify(design, code, TaskContract)
       IN  /\ verification' = IF contracted THEN result ELSE verification
           /\ status' = [status EXCEPT ![current] =
                IF contracted => result.passed THEN "completed" ELSE "failed"]
    /\ current' = 0 /\ stage' = "tasks"
    /\ UNCHANGED <<code, design, changeset, plan, contracted, resumes>>

\* Mutant of BlockUnrunnable: only what waits for a failure is given up.
BlockBehindFailure ==
    /\ stage = "tasks" /\ NoneReady(plan, status)
    /\ status' = [t \in Task |->
            IF /\ status[t] = "pending"
               /\ \E u \in KnownDeps(plan, t) : status[u] \in {"failed", "blocked"}
            THEN "blocked" ELSE status[t]]
    /\ stage' = IF \E t \in Task : status'[t] = "pending" THEN "tasks" ELSE "report"
    /\ UNCHANGED <<code, design, changeset, plan, contracted, verification,
                   current, resumes>>

\* _block_unrunnable, and the end of the loop.
BlockUnrunnable ==
    /\ stage = "tasks" /\ NoneReady(plan, status)
    /\ status' = [t \in Task |-> IF status[t] = "pending" THEN "blocked"
                                                          ELSE status[t]]
    /\ stage' = "report"
    /\ UNCHANGED <<code, design, changeset, plan, contracted, verification,
                   current, resumes>>

\* _finalize: the graph is built once more, and the gate decides.  Without a
\* changeset it has nothing to compare and asks nothing of the tasks.
Finalize ==
    /\ stage = "report"
    /\ LET verified == IF verification.passed THEN verification.verified ELSE {}
       IN  stage' = IF HasChangeset => GateOpen(design, changeset.operations, plan,
                                                status, Observed(code), verified)
                    THEN "merged" ELSE "kept"
    /\ UNCHANGED <<files, current, resumes>>
-----------------------------------------------------------------------------
(* A mission that was killed, or that ended without a merge, is started with  *)
(* --resume: a plan that exists is not made, nor looked at, again.           *)

Resume ==
    /\ stage # "merged" /\ resumes < MaxResumes
    /\ resumes' = resumes + 1
    /\ stage' = IF plan = NoPlan THEN "approval" ELSE "tasks"
    /\ current' = 0
    /\ UNCHANGED files

Step ==
    \/ ApproveAndCompile \/ GoWithoutMap \/ Structure \/ ValidateStructure
    \/ \E t \in Task : TakeTask(t)
    \/ Implement \/ FailTask \/ CompleteTask
    \/ BlockUnrunnable \/ Finalize

Next == Step \/ Resume

\* The process runs on until it ends: every phase has a limit of turns and time.
Spec == Init /\ [][Next]_vars /\ WF_vars(Step)
-----------------------------------------------------------------------------
Ended == {"blocked", "merged", "kept"}
TaskState == {"pending", "completed", "failed", "blocked"}

\* Every variable holds a value of the kind its file can hold.
TypeOK ==
    /\ stage \in {"approval", "structure", "validation", "tasks", "implement",
                  "completion", "report"} \cup Ended
    /\ code \in Codes /\ design \in Designs \cup {NoDesign}
    /\ status \in [Task -> TaskState] /\ contracted \in BOOLEAN
    /\ current \in Task \cup {0}
    /\ current # 0 => stage \in {"implement", "completion"} /\ status[current] = "pending"
    /\ plan = NoPlan \/ \A t \in Task :
            /\ plan[t].covers \subseteq changeset.operations \cup {Unknown}
            /\ plan[t].deps \subseteq Task \cup {Stranger}
    /\ verification.passed \in BOOLEAN

Changed(d) == {<<n>> : n \in {x \in Node : d.node[x].intent # "KEEP"}}
              \cup {EdgeOf(e) : e \in {x \in d.edges :
                                            x.intent \in {"CREATE", "REMOVE"}}}

\* Nothing that was approved disappears in the compilation: each changed node,
\* each new and each removed edge is one operation, or is skipped, or is an issue
\* that stops the plan.  An edge with the intent CHANGE is none of them.
NothingApprovedIsLost ==
    design # NoDesign => \A x \in Changed(design) :
        Cardinality({op \in changeset.operations : op.at = x})
        + (IF x \in {<<n>> : n \in changeset.skipped} THEN 1 ELSE 0)
        + (IF x \in {<<n>> : n \in changeset.issues} THEN 1 ELSE 0) = 1

\* The merge of a mission with a changeset is what was approved, as far as it can
\* be checked: also when the plan was never validated, tasks were resumed or the
\* code was rebuilt later.  A mission without one promises nothing: it is merged
\* with its failed tasks (test_task_failure_does_not_abort_next_task).
MergedIsDelivered ==
    stage = "merged" /\ HasChangeset =>
        /\ \A t \in Task : status[t] = "completed"
        /\ \A op \in changeset.operations : IsHard(design, op) =>
            CASE op.kind \in {"CREATE_NODE", "MODIFY_NODE"} ->
                        code.decl[op.at[1]] # "absent"
              [] op.kind = "REMOVE_NODE" -> code.decl[op.at[1]] = "absent"
              [] op.kind = "CONNECT" /\ op.at[3] = "inherits" ->
                        <<op.at[1], op.at[2]>> \in code.bases
              [] op.kind = "CONNECT" /\ op.at[3] = "contains" ->
                        Contains(design, op.at[1], op.at[2])
              [] OTHER -> FALSE

\* Of a plan that was accepted no task is given up unless a task it waits for,
\* directly or through others, was tried and failed: blocked tasks do not hold
\* each other.
BlockedBehindFailure ==
    LET InState(state) == {t \in Task : status[t] = state}
    IN  contracted => \A held \in (SUBSET InState("blocked")) \ {{}} :
            \E t \in held : KnownDeps(plan, t) \cap
                (InState("failed") \cup (InState("blocked") \ held)) # {}

\* Under an accepted plan a task is completed only on code that holds what it
\* was to create, to change and to derive: no path leads around the verifier.
CompletedWasVerified ==
    [][contracted => \A t \in Task :
        status[t] # "completed" /\ status'[t] = "completed" =>
            \A op \in plan[t].covers :
                /\ IsNodeOp(op) /\ InRepository(design, op.at[1])
                        => \/ code.decl[op.at[1]] = "right"
                           \/ /\ Kind[op.at[1]] = "package"
                              /\ PathExists(code, op.at[1])
                /\ op.kind = "CONNECT" /\ op.at[3] = "inherits"
                        => <<op.at[1], op.at[2]>> \in code.bases]_vars

\* No work is done twice: what a task was settled as stays, also when the mission
\* is resumed, and every step without a resume settles a task or comes nearer to
\* settling the one in hand.  With finitely many tasks the loop ends.
Forward == {<<"validation", "tasks">>, <<"tasks", "implement">>,
            <<"implement", "completion">>, <<"tasks", "report">>}
           \cup ({"validation", "report"} \X Ended)
WorkAdvances ==
    [][plan # NoPlan =>
         /\ \A t \in Task : status[t] # "pending" => status'[t] = status[t]
         /\ resumes' = resumes =>
                \/ \E t \in Task : status[t] = "pending" /\ status'[t] # "pending"
                \/ status' = status /\ <<stage, stage'>> \in Forward]_vars

\* A mission that works on its tasks comes to an end, whatever the plan: "nunca
\* bucle infinito", and no task is tried for ever.
TasksEnd == (stage = "tasks") ~> (stage \in Ended)
-----------------------------------------------------------------------------
(* What a specification says and the code does not do. *)

\* "validate_plan certifica el plan antes de ejecutar" (K8): no task is taken up
\* under a plan of a changeset that the validation refuses.
OnlyValidPlansRun ==
    current # 0 /\ HasChangeset => PlanIsValid(changeset.operations, plan)
=============================================================================

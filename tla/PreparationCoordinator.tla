----------------------- MODULE PreparationCoordinator -----------------------
(***************************************************************************)
(* The actions of application/preparation_coordinator.py, from the idea to  *)
(* an approved WorkPlan.  Each runs in the AsyncActionRunner's thread under  *)
(* the coordinator's lock; a step of the model ends where another thread     *)
(* can see what was written.  op.held is the session the thread has in       *)
(* hand (`current`, then `running`, then `review`).                          *)
(***************************************************************************)
EXTENDS MissionState

taskFiles == <<tasks, lease, pending, design>>
elsewhere == <<client, context, crashes, begun, outrun>>

\* save_idea / save_brief_seed: the document first, then a touch.
SaveIdea ==
    /\ ~Running
    /\ session.stage = "draft" /\ session.rev < MaxRevision
    /\ docs' = docs \cup {"idea"}
    /\ session' = Touch(session)
    /\ UNCHANGED <<taskFiles, approved, contracts, op, elsewhere>>

\* run_research up to the phase.
StartResearch ==
    /\ At("start", {"research"})
    /\ IF "idea" \in docs
       THEN SaveAndGo(MoveTo(op.held, "researching"), "agent")
       ELSE Fail
    /\ UNCHANGED <<taskFiles, docs, approved, contracts, elsewhere>>

\* The agent has answered; no_grill goes straight on to _skip_grill.
EndResearch ==
    /\ At("agent", {"research"})
    /\ \E block \in BOOLEAN, written \in SUBSET {"brainstorm"} :
        /\ ~block => written # {}
        /\ docs' = docs \cup written
        /\ IF block
           THEN SaveAndEnd(Blocked(op.held, "research"))
           ELSE IF context.noGrill
                THEN SaveAndGo(MoveTo(op.held, "research_review"), "skip")
                ELSE SaveAndEnd(MoveTo(op.held, "research_review"))
    /\ UNCHANGED <<taskFiles, approved, contracts, elsewhere>>

\* run_grill.
StartGrill ==
    /\ At("start", {"grill"})
    /\ SaveAndGo(MoveTo(op.held, "grilling"), "agent")
    /\ UNCHANGED <<taskFiles, docs, approved, contracts, elsewhere>>

EndGrill ==
    /\ At("agent", {"grill"})
    /\ \E block \in BOOLEAN, written \in SUBSET {"brief"} :
        /\ ~block => written # {}
        /\ docs' = docs \cup written
        /\ SaveAndEnd(IF block THEN Blocked(op.held, "grill")
                               ELSE MoveTo(op.held, "design_review"))
    /\ UNCHANGED <<taskFiles, approved, contracts, elsewhere>>

\* _skip_grill: rejected without a brainstorm, or when a concurrent edit of
\* the brief wins the document's compare-and-swap.
SkipGrill ==
    /\ At("start", {"skip-grill"}) \/ At("skip", {"research"})
    /\ \E saved \in BOOLEAN :
        IF "brainstorm" \in docs /\ saved
        THEN /\ docs' = docs \cup {"brief"}
             /\ SaveAndEnd(MoveTo(op.held, "design_review"))
        ELSE UNCHANGED docs /\ Fail
    /\ UNCHANGED <<taskFiles, approved, contracts, elsewhere>>

\* DesignApprovalService.approve: needs a brief and the revisions the caller
\* saw; it replaces the approved snapshot and the changeset.
ApproveDesign ==
    /\ At("start", {"approve-design"})
    /\ \E current \in BOOLEAN :
        IF "brief" \in docs /\ current
        THEN /\ approved' = design
             /\ op' = [op EXCEPT !.pc = "approved"]
        ELSE UNCHANGED approved /\ op' = NoOp
    /\ UNCHANGED <<session, taskFiles, docs, contracts, elsewhere>>

StartStructure ==
    /\ At("approved", {"approve-design"})
    /\ SaveAndGo(MoveToSnapshot(op.held, "structuring", approved), "agent")
    /\ UNCHANGED <<taskFiles, docs, approved, contracts, elsewhere>>

\* The STRUCTURE agent rewrites tasks.json, keeping finished tasks if it likes.
EndStructure ==
    /\ At("agent", {"approve-design"})
    /\ \E block \in BOOLEAN, kept \in SUBSET {t \in Task : tasks[t] = "completed"} :
        /\ tasks' = [t \in Task |-> IF t \in kept THEN "completed" ELSE "pending"]
        /\ IF block
           THEN SaveAndEnd(Blocked(op.held, "structure"))
           ELSE op' = [op EXCEPT !.pc = "compile"] /\ UNCHANGED session
    /\ UNCHANGED <<docs, design, approved, contracts, lease, pending, elsewhere>>

\* Mutant of CompileContracts: it compiles the live design, not the snapshot.
CompileLiveDesign ==
    /\ At("compile", {"approve-design"})
    /\ contracts' = design
    /\ SaveAndEnd(MoveTo(op.held, "workplan_review"))
    /\ UNCHANGED <<taskFiles, docs, approved, elsewhere>>

\* _structure_error, then TaskContractCompiler.compile, then WORKPLAN_REVIEW.
CompileContracts ==
    /\ At("compile", {"approve-design"})
    /\ \E error \in {NoReason, "workplan", "changeset"} :
        IF error = NoReason
        THEN /\ contracts' = approved
             /\ SaveAndEnd(MoveTo(op.held, "workplan_review"))
        ELSE /\ UNCHANGED contracts
             /\ SaveAndEnd(Blocked(op.held, error))
    /\ UNCHANGED <<taskFiles, docs, approved, elsewhere>>

\* approve_execution.
ApproveExecution ==
    /\ At("start", {"approve-execution"})
    /\ SaveAndEnd(MoveTo(op.held, "ready"))
    /\ UNCHANGED <<taskFiles, docs, approved, contracts, elsewhere>>

\* request_amendment.
RequestAmendment ==
    /\ At("start", {"request-amendment"})
    /\ SaveAndEnd(MoveTo(op.held, "amendment_review"))
    /\ UNCHANGED <<taskFiles, docs, approved, contracts, elsewhere>>

\* retry_blocked and retry_design: step back to the stage the phase starts
\* from, then run it again.
BackTo(kind) ==
    CASE kind = "retry-research" -> <<"draft", "research">>
      [] kind = "retry-grill"    -> <<"research_review", "grill">>
      [] kind = "retry-design"   -> <<"design_review", "approve-design">>

StepBack ==
    /\ At("start", {"retry-research", "retry-grill", "retry-design"})
    /\ LET back == MoveTo(op.held, BackTo(op.kind)[1])
       IN  Save(back, [op EXCEPT !.kind = BackTo(op.kind)[2], !.held = back])
    /\ UNCHANGED <<taskFiles, docs, approved, contracts, elsewhere>>

PreparationStep ==
    \/ StartResearch \/ EndResearch
    \/ StartGrill \/ EndGrill \/ SkipGrill
    \/ ApproveDesign \/ StartStructure \/ EndStructure \/ CompileContracts
    \/ ApproveExecution \/ RequestAmendment \/ StepBack
=============================================================================

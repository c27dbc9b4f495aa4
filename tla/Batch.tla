-------------------------------- MODULE Batch --------------------------------
(***************************************************************************)
(* A headless mission at work: the initial phases, the loop over the tasks    *)
(* (orchestrator.py, task_executor.py, burst_executor.py), the reviews        *)
(* (review_coordinator.py), and people who send commands meanwhile.  The       *)
(* process may be killed and the mission resumed.  What a phase does to the    *)
(* code, and the merge, are Delivery's.                                      *)
(***************************************************************************)
EXTENDS Telegram

Fresh ==
    /\ bus = EmptyBus /\ aborted = FALSE
    /\ back = "start" /\ phases = <<>> /\ task = 0 /\ turn = 0
    /\ held = <<>> /\ paused = <<>> /\ block = "none"
    /\ offset = 1 /\ hand = 0 /\ listener = "dead"

\* A hotfix expects its tasks to be there.
Init ==
    /\ Fresh /\ pc = "start" /\ sent = 0 /\ gone = {} /\ delivered = {}
    /\ mode \in Modes /\ gate \in {"auto", "manual"}
    /\ IF mode = "hotfix" THEN plan \in Plans \cup {NoPlan} ELSE plan = NoPlan
    /\ status = AllPending /\ audit = NoAudit
    /\ map = 0 /\ shown = 0
    /\ updates = <<>> /\ life = 1

TakesCommands ==
    {"signals", "paused", "approval", "reply", "manual", "review", "review_paused"}
-----------------------------------------------------------------------------
(* The process starts.  A resumed mission that has tasks goes on with them.  *)

Start ==
    /\ pc = "start"
    /\ offset' = NextOffset /\ listener' = "running"
    /\ IF life > 1 /\ plan # NoPlan
       THEN pc' = "load" /\ UNCHANGED phases
       ELSE /\ phases' = InitPipeline
            /\ pc' = IF InitPipeline = <<>> THEN "load" ELSE "init"
    /\ UNCHANGED <<commands, back, task, turn, wait, block, mode, design, files,
                   updates, hand, delivered, life>>

\* The backlog cannot be fetched: the mission does not start.
StartFails ==
    /\ pc = "start" /\ pc' = "over"
    /\ UNCHANGED <<commands, back, phases, task, turn, wait, block, mode, design,
                   files, telegram, life>>

\* stdin, the web server, or a signal.  Bound: while the thread takes commands;
\* what is published earlier lies on the bus until it does.
PublishLocally ==
    /\ pc \in TakesCommands /\ sent < MaxCommands /\ Events < MaxEvents
    /\ \E kind \in Kind : bus' = Publish(bus, [id |-> sent + 1, kind |-> kind])
    /\ sent' = sent + 1
    /\ UNCHANGED <<gone, aborted, thread, mode, design, files, telegram, life>>

\* A person edits the map in the browser (propose_design).  Bound: while it may
\* still be approved; later edits are not read.
EditMap ==
    /\ pc \in {"init", "approval", "grill", "reply"} /\ map < MaxMap
    /\ map' = map + 1
    /\ UNCHANGED <<commands, thread, mode, shown, files, telegram, life>>

\* The process is killed, or its mission is over, and it is started again with
\* --resume, in the same mode; the gate is again what its command line says.
Restart ==
    /\ pc # "start" /\ Events < MaxEvents
    /\ life' = life + 1 /\ pc' = "start"
    /\ gate' \in {"auto", "manual"}
    /\ gone' = 1 .. sent
    /\ bus' = EmptyBus /\ aborted' = FALSE
    /\ back' = "start" /\ phases' = <<>> /\ task' = 0 /\ turn' = 0
    /\ held' = <<>> /\ paused' = <<>> /\ block' = "none"
    /\ offset' = 1 /\ hand' = 0 /\ listener' = "dead"
    /\ UNCHANGED <<sent, mode, design, plan, status, audit, updates, delivered>>
-----------------------------------------------------------------------------
(* _run_init_pipeline. *)

\* Whether the tasks are a plan for the changeset is Delivery's question.
InitPhaseDone(phase) ==
    /\ IF phase = "structure" THEN plan' \in Plans /\ status' = AllPending
                              ELSE UNCHANGED <<plan, status>>
    /\ IF phase = "research" THEN MapMayChange ELSE UNCHANGED design
    /\ phases' = Tail(phases)
    /\ CheckSignals(IF Tail(phases) = <<>> THEN "load" ELSE "init")
    /\ UNCHANGED block

\* A structure phase may leave no tasks, or tasks that are refused.
InitPhaseBlocked(phase) ==
    /\ \/ EndFor("phase")
       \/ phase = "structure" /\ EndFor("structure")
    /\ IF phase = "structure"
       THEN /\ plan' \in Plans \cup {plan}
            /\ status' = IF plan' = plan THEN status ELSE AllPending
       ELSE UNCHANGED <<plan, status>>
    /\ UNCHANGED <<back, phases, wait, design>>

\* The map was approved, or there was none to approve.
RunInitPhase ==
    /\ \/ pc = "init" /\ ~(Head(phases) = "structure" /\ map > 0)
       \/ pc = "structure"
    /\ LET phase == Head(phases)
       IN IF phase = "grill"
          THEN /\ pc' = "grill" /\ turn' = 0
               /\ UNCHANGED <<back, phases, wait, block, plan, status, design>>
          ELSE /\ \/ InitPhaseDone(phase)
                  \/ InitPhaseBlocked(phase)
               /\ UNCHANGED turn
    /\ UNCHANGED <<commands, task, mode, gate, audit, telegram, life>>

Load ==
    /\ pc = "load"
    /\ IF mode = "explore" \/ plan = NoPlan
       THEN /\ EndFor(IF mode = "explore" THEN "none" ELSE "structure")
            /\ UNCHANGED <<back, wait>>
       ELSE CheckSignals("loop") /\ UNCHANGED block
    /\ UNCHANGED <<commands, phases, task, turn, mode, design, files, telegram, life>>
-----------------------------------------------------------------------------
(* The loop over the tasks. *)

\* What was left of the task before is deleted.
TakeTask(t) ==
    /\ pc = "loop" /\ IsNext(plan, status, t)
    /\ task' = t /\ audit' = NoAudit
    /\ phases' = TaskPipeline(t)
    /\ CheckSignals("phase")
    /\ UNCHANGED <<commands, turn, block, mode, design, gate, plan, status, telegram, life>>

\* _block_unrunnable, and the end of the loop.
BlockUnrunnable ==
    /\ pc = "loop" /\ NoneReady(plan, status)
    /\ status' = [t \in Task |-> IF status[t] = "pending" THEN "blocked" ELSE status[t]]
    /\ EndFor("none")
    /\ UNCHANGED <<commands, back, phases, task, turn, wait, mode, design, gate, plan,
                   audit, telegram, life>>

\* The task is marked and the loop goes on.
MarkTask(state) ==
    /\ status' = [status EXCEPT ![task] = state]
    /\ task' = 0 /\ phases' = <<>>
    /\ CheckSignals("loop")
    /\ UNCHANGED <<turn, block>>

\* A phase, all the bursts of it where it has bursts.  What implementing proposes
\* for the map comes too late for the snapshot, and is left out.
TaskPhaseDone ==
    /\ pc = "phase"
    /\ IF Head(phases) = "review"
       THEN \E review \in Reviews : GatePasses(plan[task].obliged, review)
                                    /\ audit' = review
       ELSE UNCHANGED audit
    /\ phases' = Tail(phases)
    /\ CASE Tail(phases) # <<>> -> CheckSignals("phase")
         [] Tail(phases) = <<>> /\ Reviewed(task) -> pc' = "verdict" /\ UNCHANGED <<back, wait>>
         [] OTHER -> pc' = "accepted" /\ UNCHANGED <<back, wait>>
    /\ UNCHANGED <<commands, task, turn, block, mode, design, gate, plan, status,
                   telegram, life>>

TaskPhaseFails ==
    /\ pc = "phase"
    /\ MarkTask("failed")
    /\ UNCHANGED <<commands, mode, design, gate, plan, audit, telegram, life>>

\* complete_task: the contract holds, and a receipt can be written.
Accept ==
    /\ pc = "accepted"
    /\ MarkTask("completed")
    /\ UNCHANGED <<commands, mode, design, gate, plan, audit, telegram, life>>

\* The contract does not hold.  A mode that only plans has none.
Unverified ==
    /\ pc = "accepted" /\ mode # "plan"
    /\ MarkTask("failed")
    /\ UNCHANGED <<commands, mode, design, gate, plan, audit, telegram, life>>

\* generate_report, whatever the block.
Report ==
    /\ pc = "report" /\ pc' = "over"
    /\ UNCHANGED <<commands, back, phases, task, turn, wait, block, mode, design,
                   files, telegram, life>>
-----------------------------------------------------------------------------
(* The review (commit_or_request_human). *)

\* Mutant of Judge: the mode of the gate is not looked at.
JudgeUngated ==
    /\ pc = "verdict"
    /\ pc' = CASE audit.verdict = "APPROVED" -> "accepted"
               [] audit.verdict = "MINOR_CHANGES" -> "rework"
               [] OTHER -> "review"
    /\ UNCHANGED <<commands, back, phases, task, turn, wait, block, mode, design,
                   files, telegram, life>>

Judge ==
    /\ pc = "verdict"
    /\ pc' = CASE audit.verdict = "APPROVED" ->
                        IF gate = "manual" THEN "manual" ELSE "accepted"
               [] audit.verdict = "MINOR_CHANGES" -> "rework"
               [] OTHER -> "review"
    /\ UNCHANGED <<commands, back, phases, task, turn, wait, block, mode, design,
                   files, telegram, life>>

\* Minor changes are made and not reviewed again.
Rework ==
    /\ pc = "rework"
    /\ \/ pc' = "accepted" /\ UNCHANGED <<back, phases, task, turn, wait, block, status>>
       \/ MarkTask("failed")
    /\ UNCHANGED <<commands, mode, design, gate, plan, audit, telegram, life>>

\* The gate may be opened meanwhile: the wait goes on.
ReviewGateMode ==
    /\ pc \in {"manual", "review"} /\ NextIs(GateKinds)
    /\ Take /\ gate' = GateOf(NextCommand.kind)
    /\ UNCHANGED <<thread, mode, design, plan, status, audit, telegram, life>>

ReviewApprove ==
    /\ pc \in {"manual", "review"} /\ NextIs({"approve"})
    /\ Take /\ pc' = "accepted"
    /\ UNCHANGED <<back, phases, task, turn, wait, block, mode, design, files, telegram, life>>

ReviewReject ==
    /\ pc \in {"manual", "review"} /\ NextIs({"reject", "skip"})
    /\ Take /\ MarkTask("failed")
    /\ UNCHANGED <<mode, design, gate, plan, audit, telegram, life>>

ReviewAbort ==
    /\ pc \in {"manual", "review"} /\ NextIs({"abort"})
    /\ Take /\ EndFor("user_abort")
    /\ UNCHANGED <<back, phases, task, turn, wait, mode, design, files, telegram, life>>

\* _retry: reimplemented and reviewed.  At the manual gate the new verdict is
\* not read; in the loop it decides.
ReviewRetry ==
    /\ pc \in {"manual", "review"} /\ NextIs({"retry"})
    /\ Take
    /\ \/ /\ \E review \in Reviews : GatePasses(plan[task].obliged, review)
                                     /\ audit' = review
          /\ pc' = CASE pc = "manual" \/ audit'.verdict = "APPROVED" -> "accepted"
                     [] pc = "review" /\ audit'.verdict = "MINOR_CHANGES" -> "verdict"
                     [] OTHER -> "review"
          /\ UNCHANGED <<back, phases, task, turn, wait, block, status>>
       \/ MarkTask("failed") /\ UNCHANGED audit
    /\ UNCHANGED <<mode, design, gate, plan, telegram, life>>

ReviewPause ==
    /\ pc = "review" /\ NextIs({"pause"})
    /\ Take /\ pc' = "review_paused"
    /\ UNCHANGED <<back, phases, task, turn, wait, block, mode, design, files, telegram, life>>

\* What is not for the review is dropped.
ReviewOther ==
    /\ \/ pc = "manual" /\ NextIs({"pause", "resume", "answer", "done"})
       \/ pc = "review" /\ NextIs({"resume", "answer", "done"})
    /\ Take
    /\ UNCHANGED <<thread, mode, design, files, telegram, life>>

\* RESUME and ABORT end the pause alike: the block is not looked at.
ReviewPaused ==
    /\ pc = "review_paused" /\ HasCommand
    /\ Take
    /\ pc' = IF NextIs({"resume", "abort"}) THEN "review" ELSE pc
    /\ UNCHANGED <<back, phases, task, turn, wait, block, mode, design, files, telegram, life>>

Reviewing == \/ Judge \/ Rework
             \/ ReviewGateMode \/ ReviewApprove \/ ReviewReject \/ ReviewAbort
             \/ ReviewRetry \/ ReviewPause \/ ReviewOther \/ ReviewPaused

Tasks == \/ \E t \in Task : TakeTask(t)
         \/ BlockUnrunnable \/ TaskPhaseDone \/ TaskPhaseFails
         \/ Accept \/ Unverified

\* The mission's thread.
Thread == \/ Start \/ StartFails \/ RunInitPhase \/ Load \/ Report
          \/ Signals \/ Approval \/ Conversation \/ Tasks \/ Reviewing

Next == \/ Thread \/ Listener \/ Post \/ PublishLocally \/ EditMap \/ Restart

Spec == Init /\ [][Next]_vars /\ WF_vars(Thread)
-----------------------------------------------------------------------------
Phase == {"research", "compact", "grill", "structure", "spec", "plan", "implement",
          "implement_bursts", "review"}

TypeOK ==
    /\ bus \in [deferred : Seq(Command), queue : Seq(Command)]
    /\ sent \in 0 .. MaxCommands /\ gone \subseteq 1 .. sent /\ aborted \in BOOLEAN
    /\ pc \in TakesCommands \cup {"start", "init", "structure", "grill", "load", "loop", "phase",
                         "verdict", "rework", "accepted", "report", "over"}
    /\ back \in {"start", "init", "load", "loop", "phase"}
    /\ phases \in Seq(Phase) /\ task \in Task \cup {0} /\ turn \in 0 .. MaxTurns
    /\ held \in Seq(Command) /\ paused \in Seq(Command)
    /\ paused # <<>> => pc = "paused"
    /\ held # <<>> => pc \in {"signals", "paused", "approval"}
    /\ block \in {"none", "phase", "structure", "user_abort", "user_rejected"}
    /\ mode \in Modes /\ gate \in {"auto", "manual"}
    /\ shown <= map /\ map <= MaxMap
    /\ plan \in Plans \cup {NoPlan}
    /\ status \in [Task -> {"pending", "completed", "failed", "blocked"}]
    /\ audit \in Reviews \cup {NoAudit}
    /\ offset \in 1 .. Len(updates) + 1 /\ hand \in 0 .. Len(updates)
    /\ delivered \subseteq Updates /\ life \in 1 .. MaxEvents + 1

\* Commands are taken in the order in which they were published, however often
\* waits set them aside and put them back, and none gets lost between them: what
\* is set aside and what is on the bus, together, is all that is not gone.
Kept == held \o paused \o Waiting(bus)
OrderKept ==
    /\ \A i, j \in DOMAIN Kept : i < j => Kept[i].id < Kept[j].id
    /\ {Kept[i].id : i \in DOMAIN Kept} = (1 .. sent) \ gone

Mail == INSTANCE Mailbox WITH Kinds <- Kind, box <- Kept

\* The bus with the five waits around it, which set commands aside and put them
\* back one inside another, is one mailbox for whoever sends: nothing is lost,
\* changed or taken twice, and nothing is acted upon before an earlier ABORT.
ImplementsMailbox == Mail!Spec

\* A reviewed task is completed because a person approved it, or on a review that
\* asked for no more than minor changes, whose evidence is clean if it asked for
\* none.  An APPROVED that no person confirms passes while the gate is automatic;
\* under a manual gate it passes only as the answer to a person's RETRY: in the
\* review loop the new verdict is not taken to the gate, and at the manual gate it
\* is not even read.
CompletedIsAccepted ==
    [][\A t \in Task : pc' = "accepted" /\ task' = t /\ Reviewed(t) =>
        \/ pc = "accepted"
        \/ pc \in {"manual", "review"} /\ NextIs({"approve"})
        \/ pc = "manual" /\ NextIs({"retry"})
        \/ /\ audit'.verdict = "APPROVED" /\ audit'.clean /\ ~audit'.failures
           /\ gate = "auto" \/ (pc = "review" /\ NextIs({"retry"}))
        \/ audit'.verdict = "MINOR_CHANGES" /\ pc = "rework"]_vars

\* An ABORT is not kept waiting: while the process lives it is taken, whatever
\* is in front of it, unless a conversation is open.
AbortHeard ==
    (\E i \in DOMAIN Waiting(bus) : Waiting(bus)[i].kind = "abort")
        ~> (aborted \/ pc \in {"reply", "start", "over"})

\* At most once: an update whose command reaches the bus was posted while this
\* process, or the person who started it, was there, and is published only now.
DeliveredOnce ==
    [][\A u \in Updates : hand = u /\ sent' = sent + 1 /\ hand' = 0 =>
        u \notin delivered /\ updates[u].life = life]_vars
-----------------------------------------------------------------------------
(* What is said and the code does not do. *)

\* "Abort ... la mision cerro limpia en el limite de fase": once an ABORT was
\* taken, the mission ends; what is left is its report.
AbortEndsMission == aborted => pc \in {"report", "over"}
=============================================================================

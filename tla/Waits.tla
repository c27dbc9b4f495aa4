-------------------------------- MODULE Waits --------------------------------
(***************************************************************************)
(* The places before and between the phases where the mission's thread takes *)
(* commands: check_signals and its pause (signal_controller.py), the approval *)
(* of the map (approval.py) and the conversation of the grill (the _run and    *)
(* _human_reply of both agent clients).                                      *)
(***************************************************************************)
EXTENDS BatchState

-----------------------------------------------------------------------------
(* check_signals: it drains the bus and puts back what is not for it. *)

SignalAbort ==
    /\ pc = "signals" /\ NextIs({"abort"})
    /\ TakeFrom(Defer(Without(bus), held)) /\ held' = <<>>
    /\ EndFor("user_abort") /\ back' = "start"
    /\ UNCHANGED <<phases, task, turn, paused, mode, design, files, telegram, life>>

SignalPause ==
    /\ pc = "signals" /\ NextIs({"pause"})
    /\ Take /\ pc' = "paused"
    /\ UNCHANGED <<back, phases, task, turn, wait, block, mode, design, files, telegram, life>>

SignalGate ==
    /\ pc = "signals" /\ NextIs(GateKinds)
    /\ Take /\ gate' = GateOf(NextCommand.kind)
    /\ UNCHANGED <<thread, mode, design, plan, status, audit, telegram, life>>

SignalOther ==
    /\ pc = "signals" /\ HasCommand
    /\ ~NextIs({"abort", "pause"} \cup GateKinds)
    /\ TakeAside /\ held' = Append(held, NextCommand)
    /\ UNCHANGED <<pc, back, phases, task, turn, paused, block, mode, design, files, telegram, life>>

SignalsDone ==
    /\ pc = "signals" /\ ~HasCommand
    /\ PutBack(held) /\ held' = <<>>
    /\ pc' = back /\ back' = "start"
    /\ UNCHANGED <<phases, task, turn, paused, block, mode, design, files, telegram, life>>

\* _wait_resume_or_abort.  What it set aside goes back before check_signals
\* goes on, or puts back its own.
PausedResume ==
    /\ pc = "paused" /\ NextIs({"resume"})
    /\ TakeFrom(Defer(Without(bus), paused)) /\ paused' = <<>>
    /\ pc' = "signals"
    /\ UNCHANGED <<back, phases, task, turn, held, block, mode, design, files, telegram, life>>

PausedAbort ==
    /\ pc = "paused" /\ NextIs({"abort"})
    /\ TakeFrom(Defer(Defer(Without(bus), paused), held))
    /\ held' = <<>> /\ paused' = <<>>
    /\ EndFor("user_abort") /\ back' = "start"
    /\ UNCHANGED <<phases, task, turn, mode, design, files, telegram, life>>

PausedGate ==
    /\ pc = "paused" /\ NextIs(GateKinds)
    /\ Take /\ gate' = GateOf(NextCommand.kind)
    /\ UNCHANGED <<thread, mode, design, plan, status, audit, telegram, life>>

PausedOther ==
    /\ pc = "paused" /\ HasCommand
    /\ ~NextIs({"resume", "abort"} \cup GateKinds)
    /\ TakeAside /\ paused' = Append(paused, NextCommand)
    /\ UNCHANGED <<pc, back, phases, task, turn, held, block, mode, design, files, telegram, life>>

Signals == \/ SignalAbort \/ SignalPause \/ SignalGate \/ SignalOther
           \/ SignalsDone
           \/ PausedResume \/ PausedAbort \/ PausedGate \/ PausedOther
-----------------------------------------------------------------------------
(* wait_for_approval: before the structure phase, when there is a map.       *)

AskApproval ==
    /\ pc = "init" /\ phases # <<>> /\ Head(phases) = "structure" /\ map > 0
    /\ shown' = map /\ pc' = "approval"
    /\ UNCHANGED <<commands, back, phases, task, turn, wait, block, mode, map, files, telegram, life>>

\* The map is approved if it is still what was presented, else it is presented
\* again.  The changeset that follows is Delivery's.
ApprovalApprove ==
    /\ pc = "approval" /\ NextIs({"approve"})
    /\ TakeFrom(Defer(Without(bus), held)) /\ held' = <<>>
    /\ IF map = shown THEN pc' = "structure" /\ shown' = 0
                      ELSE shown' = map /\ UNCHANGED pc
    /\ UNCHANGED <<back, phases, task, turn, paused, block, mode, map, files, telegram, life>>

\* Mutant of ApprovalRefuse: what was set aside is not put back.
ApprovalRefuseHolding ==
    /\ pc = "approval" /\ NextIs({"reject", "abort"})
    /\ Take /\ UNCHANGED held
    /\ EndFor(IF NextCommand.kind = "abort" THEN "user_abort" ELSE "user_rejected")
    /\ shown' = 0
    /\ UNCHANGED <<back, phases, task, turn, paused, mode, map, files, telegram, life>>

ApprovalRefuse ==
    /\ pc = "approval" /\ NextIs({"reject", "abort"})
    /\ TakeFrom(Defer(Without(bus), held)) /\ held' = <<>>
    /\ EndFor(IF NextCommand.kind = "abort" THEN "user_abort" ELSE "user_rejected")
    /\ shown' = 0
    /\ UNCHANGED <<back, phases, task, turn, paused, mode, map, files, telegram, life>>

\* Mutant of ApprovalOther: an ABORT is set aside like anything else.
ApprovalOtherAbort ==
    /\ pc = "approval" /\ HasCommand /\ ~NextIs({"approve", "reject"})
    /\ TakeAside /\ held' = Append(held, NextCommand)
    /\ UNCHANGED <<pc, back, phases, task, turn, paused, block, mode, design, files, telegram, life>>

\* Mutant of ApprovalOther: put back at once, as _human_reply does.
ApprovalOtherAtOnce ==
    /\ pc = "approval" /\ HasCommand /\ ~NextIs({"approve", "reject", "abort"})
    /\ bus' = Defer(Without(bus), <<NextCommand>>)
    /\ UNCHANGED <<sent, gone, aborted, thread, mode, design, files, telegram, life>>

ApprovalOther ==
    /\ pc = "approval" /\ HasCommand /\ ~NextIs({"approve", "reject", "abort"})
    /\ TakeAside /\ held' = Append(held, NextCommand)
    /\ UNCHANGED <<pc, back, phases, task, turn, paused, block, mode, design, files, telegram, life>>

Approval == \/ AskApproval \/ ApprovalApprove \/ ApprovalRefuse \/ ApprovalOther
-----------------------------------------------------------------------------
(* The conversation.  An agent may propose changes of the map in its turn.   *)

MapMayChange == map' \in map .. MaxMap /\ UNCHANGED shown

AgentTurn ==
    /\ pc = "grill" /\ turn < MaxTurns
    /\ turn' = turn + 1 /\ pc' = "reply"
    /\ MapMayChange
    /\ UNCHANGED <<commands, back, phases, task, wait, block, mode, files, telegram, life>>

\* Turns or time are up, or the provider fails, in the agent's turn.
ConversationFails ==
    /\ pc = "grill"
    /\ EndFor("phase") /\ turn' = 0
    /\ UNCHANGED <<commands, back, phases, task, wait, mode, design, files, telegram, life>>

HumanAnswers ==
    /\ pc = "reply" /\ NextIs({"answer"})
    /\ Take /\ pc' = "grill"
    /\ UNCHANGED <<back, phases, task, turn, wait, block, mode, design, files, telegram, life>>

\* DONE and ABORT both close the conversation; then the brief has its gate.
ConversationCloses ==
    /\ pc = "reply" /\ NextIs({"done", "abort"})
    /\ Take
    /\ \/ phases' = Tail(phases) /\ CheckSignals("init") /\ UNCHANGED block
       \/ EndFor("phase") /\ UNCHANGED <<back, phases, wait>>
    /\ turn' = 0
    /\ UNCHANGED <<task, mode, design, files, telegram, life>>

\* Anything else is put back at the head at once, and is what is taken next.
ReplyOther ==
    /\ pc = "reply" /\ HasCommand /\ ~NextIs({"answer", "done", "abort"})
    /\ bus' = Defer(Without(bus), <<NextCommand>>)
    /\ UNCHANGED <<sent, gone, aborted, thread, mode, design, files, telegram, life>>

Conversation == \/ AgentTurn \/ ConversationFails
                \/ HumanAnswers \/ ConversationCloses \/ ReplyOther
=============================================================================

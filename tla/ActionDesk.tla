----------------------------- MODULE ActionDesk -----------------------------
(***************************************************************************)
(* The two services that answer at once and work in a thread of their own:   *)
(* AsyncActionRunner (adapters/control/http_server.py), one mission action   *)
(* at a time, and CodeQuestionService (application/code_questions.py), one   *)
(* question at a time.  Both keep their operations in memory only.          *)
(***************************************************************************)
EXTENDS WorkerState

stores == <<designDb, documentsDb, alias, phase, clients, restarts>>

-----------------------------------------------------------------------------
(* AsyncActionRunner.  An operation is known by the command that created it. *)

Finished == {"completed", "rejected", "failed"}
IdleRunner == [active |-> NoCommand, status |-> [c \in Command |-> "none"]]
Busy == runner.active # NoCommand /\ runner.status[runner.active] = "running"

StartAction(cmd) ==
    runner' = [active |-> cmd,
               status |-> [runner.status EXCEPT ![cmd] = "running"]]

\* Mutant of Known: the commands of finished operations are forgotten.
KnownRunning(cmd) == runner.status[cmd] = "running"

\* A command that has an operation is told of it, whatever else is running.
Known(cmd) == runner.status[cmd] # "none"

\* submit, all of it under the runner's lock.
Submit(t) ==
    /\ Serves(t, "action")
    /\ LET cmd == thread[t].cmd
       IN  \/ /\ Known(cmd)
              /\ Answer(t, runner.status[cmd], 0) /\ UNCHANGED runner
           \/ /\ ~Known(cmd) /\ Busy
              /\ Answer(t, "in_progress", 0) /\ UNCHANGED runner
           \/ /\ ~Known(cmd) /\ ~Busy /\ StartAction(cmd)
              /\ Answer(t, "running", 0)
    /\ UNCHANGED <<stores, slot>>

\* The action returns, is rejected, or raises.
FinishAction(cmd) ==
    /\ runner.status[cmd] = "running"
    /\ \E status \in Finished : runner' = [runner EXCEPT !.status[cmd] = status]
    /\ UNCHANGED <<stores, slot, thread, answers>>
-----------------------------------------------------------------------------
(* CodeQuestionService. *)

NoQuestion == [holder |-> NoCommand, status |-> [c \in Command |-> "none"],
               answered |-> {}]

\* Each submission is a new operation; the slot is taken without waiting.
Ask(t) ==
    /\ Serves(t, "question")
    /\ LET cmd == thread[t].cmd
           status == IF slot.holder = NoCommand THEN "running" ELSE "busy"
       IN  /\ slot' = IF status = "busy" THEN slot
                      ELSE [slot EXCEPT !.holder = cmd, !.status[cmd] = status,
                                        !.answered = @ \ {cmd}]
           /\ Answer(t, status, 0)
    /\ UNCHANGED <<stores, runner>>

Ended == {"completed", "timeout", "max_turns", "unavailable"}

\* Mutant of EndQuestion: the agent's exception is left as the status.
EndQuestionRaw(cmd) ==
    /\ slot.holder = cmd /\ slot.status[cmd] = "running"
    /\ \E status \in Ended \cup {"RuntimeError"} :
            slot' = [slot EXCEPT !.status[cmd] = status]
    /\ UNCHANGED <<stores, runner, thread, answers>>

\* The agent's turn ends: its status is set first,
EndQuestion(cmd) ==
    /\ slot.holder = cmd /\ slot.status[cmd] = "running"
    /\ \E status \in Ended :
            slot' = [slot EXCEPT !.status[cmd] = status]
    /\ UNCHANGED <<stores, runner, thread, answers>>

\* then the text of the answer,
StoreAnswer(cmd) ==
    /\ slot.holder = cmd /\ slot.status[cmd] = "completed"
    /\ cmd \notin slot.answered
    /\ slot' = [slot EXCEPT !.answered = @ \cup {cmd}]
    /\ UNCHANGED <<stores, runner, thread, answers>>

\* Mutant of FreeSlot: only an answer frees the slot.
FreeSlotWhenAnswered(cmd) ==
    /\ slot.holder = cmd
    /\ cmd \in slot.answered
    /\ slot' = [slot EXCEPT !.holder = NoCommand]
    /\ UNCHANGED <<stores, runner, thread, answers>>

\* and last, whatever happened, the slot is released.  The metric that is recorded
\* before it cannot get in the way: the loggers keep their errors to themselves.
FreeSlot(cmd) ==
    /\ slot.holder = cmd /\ slot.status[cmd] # "running"
    /\ slot.status[cmd] = "completed" => cmd \in slot.answered
    /\ slot' = [slot EXCEPT !.holder = NoCommand]
    /\ UNCHANGED <<stores, runner, thread, answers>>

DeskStep(t) == Submit(t) \/ Ask(t)
BackgroundStep(cmd) ==
    FinishAction(cmd) \/ EndQuestion(cmd) \/ StoreAnswer(cmd) \/ FreeSlot(cmd)
=============================================================================

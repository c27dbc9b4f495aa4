----------------------------- MODULE BatchState -----------------------------
(***************************************************************************)
(* The state of a headless mission (cli.py and what it starts): the bus, the *)
(* mission's own thread, its files, and the Telegram listener.               *)
(***************************************************************************)
EXTENDS CommandBus, WorkPlan, ReviewGate

CONSTANTS
    Modes,           \* the modes a mission may be started in
    Plans,           \* what an agent may write to tasks.json
    Reviews,         \* what a reviewer may write
    MaxMap,          \* bound: revisions of the design map
    MaxTurns,        \* turns of a conversation
    Posted,          \* what may be posted to Telegram: a kind, or "query"
    MaxEvents        \* bound: commands, posts and restarts, together

Size == {"S", "M", "L"}
Mode == {"full", "simple", "focused", "plan", "spec", "explore", "hotfix"}

ASSUME BatchAssumption ==
    /\ Modes \subseteq Mode
    /\ \A plan \in Plans : \A t \in Task :
            /\ plan[t].size \in Size /\ plan[t].obliged \in BOOLEAN
            /\ plan[t].deps \subseteq Task \cup {Stranger}
    /\ Reviews \subseteq Review
    /\ Posted \subseteq Kind \cup {"query"}
    /\ {MaxMap, MaxTurns, MaxEvents} \subseteq Nat

VARIABLES
    bus, sent,      \* the command bus; the commands published on it so far
    gone,           \* commands that were taken for good, or lost with a process
    aborted,        \* this process has taken an ABORT
    pc, back,       \* where the thread is; where it goes on after its wait
    phases, task,   \* the rest of the pipeline; the task in hand, or 0
    turn,           \* turns of the conversation
    held, paused,   \* commands set aside by a wait, and by a pause within it
    block,          \* the reason the mission ends for, or "none"
    mode,
    map, shown,     \* design.db: its revision; the revision last presented
    gate,           \* _gate_mode
    plan, status,   \* tasks.json
    audit,          \* audit.md and review-evidence.json
    updates,        \* updates on Telegram's server: id |-> [what, life]
    offset,         \* the listener's offset
    hand,           \* the update it is about to handle, or 0
    listener,       \* "running" or "dead"
    delivered,      \* updates whose command was published
    life            \* how many times the mission has been started

commands == <<bus, sent, gone, aborted>>
wait == <<held, paused>>
thread == <<pc, back, phases, task, turn, wait, block>>
files == <<gate, plan, status, audit>>
design == <<map, shown>>
telegram == <<updates, offset, hand, listener, delivered>>
vars == <<commands, thread, mode, design, files, telegram, life>>

Events == (sent - Cardinality(delivered)) + Len(updates) + (life - 1)

NoPlan == <<>>
NoAudit == [verdict |-> "UNKNOWN"]
AllPending == [t \in Task |-> "pending"]

\* mission_pipeline_for.  The phases after the tasks are listed and not used.
InitPipeline ==
    CASE mode = "full" -> <<"research", "compact", "grill", "structure">>
      [] mode \in {"simple", "focused"} -> <<"research", "structure">>
      [] mode = "plan" -> <<"research", "grill", "structure">>
      [] mode = "explore" -> <<"research">>
      [] OTHER -> <<>>

\* task_pipeline_for.
TaskPipeline(t) ==
    IF mode = "plan"
    THEN <<"spec", "plan">>
    ELSE CASE plan[t].size = "S" -> <<"spec", "plan", "implement">>
           [] plan[t].size = "L" -> <<"spec", "plan", "implement_bursts", "review">>
           [] OTHER -> <<"spec", "plan", "implement", "review">>

Reviewed(t) == mode # "plan" /\ plan[t].size # "S"

-----------------------------------------------------------------------------
(* The thread's ways of taking a command. *)

HasCommand == Waiting(bus) # <<>>
NextCommand == Head(Waiting(bus))
NextIs(kinds) == HasCommand /\ NextCommand.kind \in kinds

\* Taken for good: acted upon, or dropped; the bus loses it.
TakeFrom(b) ==
    /\ bus' = b
    /\ gone' = gone \cup {NextCommand.id}
    /\ aborted' = (aborted \/ NextCommand.kind = "abort")
    /\ UNCHANGED sent

Take == TakeFrom(Without(bus))

\* Taken off the bus by a wait that keeps it for later.
TakeAside == bus' = Without(bus) /\ UNCHANGED <<sent, gone, aborted>>

PutBack(set) == bus' = Defer(bus, set) /\ UNCHANGED <<sent, gone, aborted>>

GateOf(kind) == IF kind = "gate_manual" THEN "manual" ELSE "auto"
GateKinds == {"gate_manual", "gate_auto"}

\* check_signals is called, and the thread goes on at place after it.
CheckSignals(place) ==
    pc' = "signals" /\ back' = place /\ UNCHANGED wait

\* The mission ends for this reason: what is left is the report.
EndFor(reason) ==
    pc' = "report" /\ block' = reason
=============================================================================

------------------------------ MODULE Telegram ------------------------------
(***************************************************************************)
(* adapters/telegram/listener.py, lock.py and commands.py: the listener      *)
(* thread of a mission.  Telegram's server is external: getUpdates(offset)    *)
(* returns the updates from offset on, and getUpdates(-1) the last one.       *)
(***************************************************************************)
EXTENDS Waits

Updates == 1 .. Len(updates)
Alive == pc \notin {"start", "over"}     \* a process, and its daemon threads

unread == <<offset, hand, listener, delivered>>

\* A person writes to the bot.  Bound: while it is read, or before the mission
\* starts; what is posted at other times is part of the next start's backlog.
Post ==
    /\ Events < MaxEvents
    /\ pc = "start" \/ (Alive /\ listener = "running")
    /\ \E what \in Posted : updates' = Append(updates, [what |-> what, life |-> life])
    /\ UNCHANGED <<commands, thread, mode, design, files, unread, life>>

\* synchronize_backlog: whatever is on the server when the mission starts.
NextOffset == Len(updates) + 1

\* Mutant of TakeUpdate: the offset is not moved.
TakeUpdateUnconfirmed ==
    /\ Alive /\ listener = "running" /\ hand = 0 /\ offset <= Len(updates)
    /\ hand' = offset
    /\ UNCHANGED <<commands, thread, mode, design, files, updates, offset,
                   listener, delivered, life>>

\* The next of what get_updates returned.  The offset is moved, and persisted,
\* before the update is handled.
TakeUpdate ==
    /\ Alive /\ listener = "running" /\ hand = 0 /\ offset <= Len(updates)
    /\ hand' = offset /\ offset' = offset + 1
    /\ UNCHANGED <<commands, thread, mode, design, files, updates, listener,
                   delivered, life>>

\* A command for exactly this mission; all else counts as a query.
Commands(update) == update.what # "query"

DeliverCommand ==
    /\ Alive /\ listener = "running" /\ hand # 0 /\ Commands(updates[hand])
    /\ sent < MaxCommands
    /\ sent' = sent + 1
    /\ bus' = Publish(bus, [id |-> sent + 1, kind |-> updates[hand].what])
    /\ delivered' = delivered \cup {hand} /\ hand' = 0
    /\ UNCHANGED <<gone, aborted, thread, mode, design, files, updates, offset,
                   listener, life>>

\* Anything else is answered; an answer that cannot be sent ends the thread.
AnswerUpdate ==
    /\ Alive /\ listener = "running" /\ hand # 0 /\ ~Commands(updates[hand])
    /\ hand' = 0
    /\ listener' \in {"running", "dead"}
    /\ UNCHANGED <<commands, thread, mode, design, files, updates, offset,
                   delivered, life>>

\* A fatal answer of the server: 401, 403, 409.
PollFails ==
    /\ Alive /\ listener = "running" /\ hand = 0
    /\ listener' = "dead"
    /\ UNCHANGED <<commands, thread, mode, design, files, updates, offset,
                   hand, delivered, life>>

Listener == TakeUpdate \/ DeliverCommand \/ AnswerUpdate \/ PollFails
=============================================================================

----------------------------- MODULE CommandBus -----------------------------
(***************************************************************************)
(* domain/command.py and adapters/command_bus.py: what a person may say to a *)
(* mission, and the bus on which stdin, the web server, Telegram and the      *)
(* signal handlers put it and the mission's thread takes it.  A command has   *)
(* an id, the place in the order in which the commands were published.        *)
(***************************************************************************)
EXTENDS Naturals, Sequences

CONSTANT MaxCommands    \* bound: commands published
ASSUME MaxCommandsAssumption == MaxCommands \in Nat

Kind == {"abort", "pause", "resume", "approve", "reject", "retry", "skip",
         "gate_manual", "gate_auto", "answer", "done"}
Command == [id : 1 .. MaxCommands, kind : Kind]

EmptyBus == [deferred |-> <<>>, queue |-> <<>>]

\* What a get will return, in order: what was put back is in front.
Waiting(bus) == bus.deferred \o bus.queue

Publish(bus, command) == [bus EXCEPT !.queue = Append(@, command)]

\* get and get_nowait, when there is something.
Without(bus) == IF bus.deferred # <<>> THEN [bus EXCEPT !.deferred = Tail(@)]
                                       ELSE [bus EXCEPT !.queue = Tail(@)]

\* Mutant of Defer: what is put back goes behind what was put back before.
DeferBehind(bus, commands) == [bus EXCEPT !.deferred = @ \o commands]

\* defer: what a wait set aside goes in front of everything.
Defer(bus, commands) == [bus EXCEPT !.deferred = commands \o @]
=============================================================================

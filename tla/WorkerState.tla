---------------------------- MODULE WorkerState -----------------------------
(***************************************************************************)
(* What the threads of one control worker share when they serve the commands *)
(* that carry an identifier: changes of the design map, its approval, saves  *)
(* of documents, mission actions and code questions.                        *)
(*                                                                         *)
(* Files (they survive a restart): design.db, documents.db, the alias file.  *)
(* Memory (it does not): the HTTP threads, the action runner's registry, the *)
(* slot for code questions, the phase that an agent is running.             *)
(* Clients (they do not restart): what they sent and what they were told.    *)
(***************************************************************************)
EXTENDS Naturals, Sequences, FiniteSets

CONSTANTS
    Thread,       \* HTTP threads
    Command,      \* command_id or operation_id of the clients' requests
    Node,         \* ids of design nodes
    Batch,        \* the lists of operations a client may propose
    Text,         \* contents of the one document that is modelled
    MaxSends,     \* bounds: times a client sends the same command,
    MaxRestarts   \*   restarts of the worker

NoNode == "none"
NoText == "none"
NoCommand == "none"

Operation == [op : {"add_node", "update_node", "remove_node", "add_edge",
                    "remove_edge", "malformed"},
              id : Node, other : Node \cup {NoNode}]

ASSUME WorkerAssumption ==
    /\ Batch \subseteq Seq(Operation)
    /\ NoNode \notin Node /\ NoText \notin Text /\ NoCommand \notin Command
    /\ {MaxSends, MaxRestarts} \subseteq Nat

VARIABLES
    map, revision, log, snapshots,   \* design.db
    versions, writes,                \* documents.db: contents, commands
    alias,                           \* the document as agents read it
    phase,                           \* the agent's phase, and its capture
    thread,                          \* what each HTTP thread has in hand
    runner,                          \* the AsyncActionRunner
    slot,                            \* the question being answered
    issued, sends, answers,          \* the clients
    restarts

designDb == <<map, revision, log, snapshots>>
documentsDb == <<versions, writes>>
clients == <<issued, sends>>
vars == <<designDb, documentsDb, alias, phase, thread, runner, slot, clients,
          answers, restarts>>

-----------------------------------------------------------------------------
(* Requests and the threads that serve them. *)

Apply == [kind : {"apply"}, base : Nat, batch : Batch]
Approve == [kind : {"approve"}, base : Nat]
SaveDocument == [kind : {"save"}, base : Nat, text : Text, aliased : BOOLEAN]
Action == [kind : {"action"}]
Question == [kind : {"question"}]
Unissued == [kind |-> "none"]
Request == Apply \cup Approve \cup SaveDocument \cup Action \cup Question

EmptyMap == [nodes |-> {}, parent |-> [n \in Node |-> NoNode], edges |-> {}]

\* rev: the design revision the thread has read; work: its copy of the map;
\* left: the operations it has still to apply.
Idle == [pc |-> "idle", cmd |-> NoCommand, rev |-> 0, work |-> EmptyMap,
         left |-> <<>>]

Body(t) == issued[thread[t].cmd]
Serves(t, pc) == thread[t].pc = pc
Go(t, pc) == thread' = [thread EXCEPT ![t].pc = pc]
Drop(t) == thread' = [thread EXCEPT ![t] = Idle]

\* The thread answers the client and ends.
Answer(t, status, rev) ==
    /\ answers' = answers \cup {[cmd |-> thread[t].cmd, status |-> status,
                                 rev |-> rev, life |-> restarts]}
    /\ Drop(t)

\* The thread ends in an exception: the client is told nothing it can keep.
Raise(t) == UNCHANGED answers /\ Drop(t)
=============================================================================

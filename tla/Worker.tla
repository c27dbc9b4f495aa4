------------------------------- MODULE Worker -------------------------------
(***************************************************************************)
(* The control worker as its clients see it: commands that carry an id, sent  *)
(* again when no answer came, served by concurrent HTTP threads on stores     *)
(* that survive a restart and on services that do not.                       *)
(***************************************************************************)
EXTENDS DesignStore, DocumentStore, ActionDesk

Init ==
    /\ map = EmptyMap /\ revision = 0 /\ snapshots = {}
    /\ log = [c \in Command |-> Unlogged]
    /\ versions = <<>> /\ alias = NoText
    /\ writes = [c \in CatalogCommand |-> Unwritten]
    /\ phase = NoPhase
    /\ thread = [t \in Thread |-> Idle]
    /\ runner = IdleRunner /\ slot = NoQuestion
    /\ issued = [c \in Command |-> Unissued]
    /\ sends = [c \in Command |-> 0]
    /\ answers = {} /\ restarts = 0

-----------------------------------------------------------------------------
(* The clients. *)

\* A client knows a revision because it has read it.
NewRequest ==
    [kind : {"apply"}, base : 0 .. revision, batch : Batch]
    \cup [kind : {"approve"}, base : 0 .. revision]
    \cup [kind : {"save"}, base : 0 .. HeadRevision, text : Text,
          aliased : BOOLEAN]
    \cup Action \cup Question

\* A request arrives; the same command always has the same body.
Send(t, c) ==
    /\ Serves(t, "idle") /\ sends[c] < MaxSends
    /\ \E request \in (IF issued[c] = Unissued THEN NewRequest ELSE {issued[c]}) :
        /\ issued' = [issued EXCEPT ![c] = request]
        /\ thread' = [thread EXCEPT ![t] = [Idle EXCEPT !.pc = request.kind,
                                                        !.cmd = c]]
    /\ sends' = [sends EXCEPT ![c] = @ + 1]
    /\ UNCHANGED <<designDb, documentsDb, alias, phase, runner, slot, answers,
                   restarts>>

\* The running action starts a phase that ends in a capture.
StartPhase ==
    /\ \E c \in Command : runner.status[c] = "running"
    /\ ~InPhase
    /\ phase' = [NoPhase EXCEPT !.pc = "agent"]
    /\ UNCHANGED <<designDb, documentsDb, alias, thread, runner, slot, clients,
                   answers, restarts>>

Restart ==
    /\ restarts < MaxRestarts
    /\ restarts' = restarts + 1
    /\ thread' = [t \in Thread |-> Idle]
    /\ phase' = NoPhase
    /\ runner' = IdleRunner /\ slot' = NoQuestion
    /\ UNCHANGED <<designDb, documentsDb, alias, clients, answers>>

ThreadStep(t) == DesignStep(t) \/ SaveStep(t) \/ DeskStep(t)

Next ==
    \/ \E t \in Thread : ThreadStep(t) \/ \E c \in Command : Send(t, c)
    \/ \E c \in Command : BackgroundStep(c)
    \/ StartPhase \/ PhaseStep
    \/ Restart

Spec == Init /\ [][Next]_vars
-----------------------------------------------------------------------------
(* Types. *)

Map == [nodes : SUBSET Node, parent : [Node -> Node \cup {NoNode}],
        edges : SUBSET (Node \X Node)]

Pc == {"idle", "apply", "compare", "savepoint", "batch", "conflict",
       "rejected", "applied", "approve", "nodes", "edges", "save", "alias",
       "action", "question"}

Status == {"APPLIED", "CONFLICT", "REJECTED", "DUPLICATE", "running",
           "completed", "rejected", "failed", "in_progress", "busy"}

\* Every variable holds a value of the kind its file or thread can hold.
TypeOK ==
    /\ map \in Map /\ revision \in Nat
    /\ snapshots \subseteq [rev : Nat, map : Map]
    /\ log \in [Command -> [status : Status \cup {"none"}, rev : Nat]]
    /\ versions \in Seq(Text) /\ alias \in Text \cup {NoText}
    /\ writes \in [CatalogCommand -> [status : Status \cup {"none"}, rev : Nat]]
    /\ phase \in [pc : {"idle", "agent", "read", "compare", "save", "alias"},
                  text : Text \cup {NoText}, base : Nat]
    /\ thread \in [Thread -> [pc : Pc, cmd : Command \cup {NoCommand},
                              rev : Nat, work : Map, left : Seq(Operation)]]
    /\ runner \in [active : Command \cup {NoCommand},
                   status : [Command -> Status \cup {"none"}]]
    /\ slot \in [holder : Command \cup {NoCommand}, answered : SUBSET Command,
                 status : [Command -> {"none", "running"} \cup Ended]]
    /\ issued \in [Command -> Request \cup {Unissued}]
    /\ answers \subseteq [cmd : Command, status : Status, rev : Nat, life : Nat]
    /\ restarts \in 0 .. MaxRestarts
-----------------------------------------------------------------------------
(* Safety. *)

\* Whatever batches are proposed, refused or cut short by a restart, an edge of
\* the map joins two of its nodes and a parent is one of them (store.py keeps
\* no foreign keys: only the order of the checks and deletions does it).
MapIsClosed ==
    /\ \A e \in map.edges : {e[1], e[2]} \subseteq map.nodes
    /\ \A n \in Node : map.parent[n] \in map.nodes \cup {NoNode}

\* Every revision up to the present one has a batch on the log that was applied
\* on the revision before it, and a refused batch took no revision: counter and log
\* do not drift apart across conflicts, refusals, retries, restarts and batches that
\* are handled at the same time.
RevisionsAreRecorded ==
    /\ \A r \in 1 .. revision :
            \E c \in Command : log[c] = [status |-> "APPLIED", rev |-> r]
    /\ \A c \in Command :
            /\ log[c].status = "APPLIED" => log[c].rev = issued[c].base + 1
            /\ log[c].status = "REJECTED" => log[c].rev = issued[c].base
            /\ log[c].status = "CONFLICT" => log[c].rev # issued[c].base

Durable(c) == issued[c].kind \in {"apply", "save"}

\* A client that repeats a command, at once or after a restart, is told the
\* revision it was told before, whatever happened to the store in between.
AnswersAgree ==
    \A a, b \in answers : a.cmd = b.cmd /\ Durable(a.cmd) => a.rev = b.rev

\* A client that was answered on a save the catalogue has applied, the first
\* time or when it asked again, finds its text at that revision for good.
SavedTextIsVersion ==
    \A a \in answers : issued[a.cmd].kind = "save" /\ writes[a.cmd].status = "APPLIED"
        => a.rev \in DOMAIN versions /\ versions[a.rev] = issued[a.cmd].text

\* Only an agent puts into the document a text that the catalogue does not have:
\* what a save or a capture writes there is a version by then, whatever saves
\* conflicted and whoever else writes, and after any restart.
OnlyAgentsDraft ==
    [][alias' # alias =>
         \/ phase.pc = "agent" /\ phase'.pc = "read"
         \/ \E r \in DOMAIN versions : versions[r] = alias']_vars

\* The catalogue has the text, or has on record that it refused to capture it
\* because the document was saved while the capture was under way.
Accounted(text) ==
    \/ \E r \in DOMAIN versions : versions[r] = text
    \/ writes[CaptureId(text)].status = "CONFLICT"

\* When a phase ends, what its capture read and what the document then holds are
\* accounted for, also when the agent came back to an earlier text and when people
\* save meanwhile: nothing is passed over as if it were saved already.
CaptureIsAccounted ==
    [][InPhase /\ phase'.pc = "idle" /\ restarts' = restarts =>
         \A text \in {phase.text, alias'} \ {NoText} : Accounted(text)']_vars

\* Between two restarts no command is run twice and no two actions run
\* together, however often and however late it is sent again: what Mission
\* assumes of its one `op`.
ActionsRunOnce ==
    [][restarts' = restarts => \A c \in Command :
        /\ runner.status[c] \in Finished => runner'.status[c] = runner.status[c]
        /\ runner'.status[c] = "running" /\ runner.status[c] # "running" =>
            \A d \in Command : runner.status[d] # "running"]_vars

\* Whatever becomes of a question, the thread that answers it goes on to free
\* the slot: one question that fails does not refuse all the later ones.
SlotIsNotLeaked ==
    slot.holder # NoCommand =>
        ENABLED (\E c \in Command : BackgroundStep(c) /\ slot' # slot)
-----------------------------------------------------------------------------
(* What a specification says and the code does not do. *)

\* "El CAS de K4 ya impide la sobrescritura" (B4, of the design store): each revision
\* comes from one batch, so that two tabs or a tab and the mission do not both apply
\* theirs on one base.
RevisionCountsApplied ==
    /\ revision = Cardinality({c \in Command : log[c].status = "APPLIED"})
    /\ \A c, d \in Command :
        c # d /\ log[c].status = "APPLIED" /\ log[d].status = "APPLIED"
            => log[c].rev # log[d].rev
=============================================================================

---------------------------- MODULE DesignStore -----------------------------
(***************************************************************************)
(* adapters/design/store.py: the design map, its revision and the log of    *)
(* operations.  Statements outside a transaction are steps of their own: the *)
(* connection is in autocommit mode until its first write, and releasing the *)
(* savepoint of a batch commits it before the revision and the record.       *)
(***************************************************************************)
EXTENDS WorkerState

otherFiles == <<documentsDb, alias, phase, runner, slot, clients, restarts>>

-----------------------------------------------------------------------------
(* One operation on a map: the set of the maps it may lead to, empty when    *)
(* the operation is refused (_ValidationError).                             *)

AddNode(m, o) ==
    IF /\ o.op = "add_node"
       /\ o.id \notin m.nodes
       /\ o.other \in m.nodes \cup {NoNode}
    THEN {[m EXCEPT !.nodes = @ \cup {o.id}, !.parent[o.id] = o.other]}
    ELSE {}

\* Of the fields, the parent is the one that names another node.
UpdateNode(m, o) ==
    IF /\ o.op = "update_node"
       /\ o.id \in m.nodes
       /\ o.other \in m.nodes \cup {NoNode}
    THEN {[m EXCEPT !.parent[o.id] = o.other]}
    ELSE {}

Orphaned(m, id) == [n \in Node |-> IF n = id \/ m.parent[n] = id
                                   THEN NoNode ELSE m.parent[n]]

\* Mutant of RemoveNode: the edges of the node stay.
RemoveNodeOnly(m, o) ==
    IF o.op = "remove_node" /\ o.id \in m.nodes
    THEN {[nodes |-> m.nodes \ {o.id}, parent |-> Orphaned(m, o.id),
           edges |-> m.edges]}
    ELSE {}

\* With the node go its edges and the parent of its children.
RemoveNode(m, o) ==
    IF o.op = "remove_node" /\ o.id \in m.nodes
    THEN {[nodes |-> m.nodes \ {o.id}, parent |-> Orphaned(m, o.id),
           edges |-> {e \in m.edges : o.id \notin {e[1], e[2]}}]}
    ELSE {}

AddEdge(m, o) ==
    IF /\ o.op = "add_edge"
       /\ {o.id, o.other} \subseteq m.nodes
       /\ <<o.id, o.other>> \notin m.edges
    THEN {[m EXCEPT !.edges = @ \cup {<<o.id, o.other>>}]}
    ELSE {}

RemoveEdge(m, o) ==
    IF /\ o.op = "remove_edge"
       /\ <<o.id, o.other>> \in m.edges
    THEN {[m EXCEPT !.edges = @ \ {<<o.id, o.other>>}]}
    ELSE {}

ApplyOperation(m, o) ==
    AddNode(m, o) \cup UpdateNode(m, o) \cup RemoveNode(m, o)
        \cup AddEdge(m, o) \cup RemoveEdge(m, o)
-----------------------------------------------------------------------------
(* apply. *)

Unlogged == [status |-> "none", rev |-> 0]
Logged(cmd) == log[cmd] # Unlogged

\* Mutant of LookUp: a repeated command is told the current revision.
LookUpCurrent(t) ==
    /\ Serves(t, "apply")
    /\ IF Logged(thread[t].cmd)
       THEN Answer(t, "DUPLICATE", revision)
       ELSE Go(t, "compare") /\ UNCHANGED answers
    /\ UNCHANGED <<designDb, otherFiles>>

\* A repeated command is answered with what it led to the first time.
LookUp(t) ==
    /\ Serves(t, "apply")
    /\ IF Logged(thread[t].cmd)
       THEN Answer(t, "DUPLICATE", log[thread[t].cmd].rev)
       ELSE Go(t, "compare") /\ UNCHANGED answers
    /\ UNCHANGED <<designDb, otherFiles>>

\* The compare-and-swap, read before any transaction is open.
CompareRevision(t) ==
    /\ Serves(t, "compare")
    /\ thread' = [thread EXCEPT
            ![t].pc = IF revision = Body(t).base THEN "savepoint"
                                                 ELSE "conflict",
            ![t].rev = revision]
    /\ UNCHANGED <<designDb, answers, otherFiles>>

InSavepoint(t) == Serves(t, "batch")

\* The transaction of the batch.  sqlite lets one of two that write go on and
\* tells the other that the database is locked, or lets it wait and come after.
OpenSavepoint(t) ==
    /\ Serves(t, "savepoint")
    /\ IF \E u \in Thread : InSavepoint(u)
       THEN Raise(t)
       ELSE /\ thread' = [thread EXCEPT ![t].pc = "batch", ![t].work = map,
                                        ![t].left = Body(t).batch]
            /\ UNCHANGED answers
    /\ UNCHANGED <<designDb, otherFiles>>

\* The next operation of the batch; one refusal rolls the batch back.
ApplyNext(t) ==
    /\ InSavepoint(t) /\ thread[t].left # <<>>
    /\ LET results == ApplyOperation(thread[t].work, Head(thread[t].left))
       IN  IF results = {}
           THEN thread' = [thread EXCEPT ![t].pc = "rejected",
                                         ![t].work = EmptyMap, ![t].left = <<>>]
           ELSE \E m \in results :
                    thread' = [thread EXCEPT ![t].work = m, ![t].left = Tail(@)]
    /\ UNCHANGED <<designDb, answers, otherFiles>>

\* RELEASE of the outermost savepoint commits the batch.
Release(t) ==
    /\ InSavepoint(t) /\ thread[t].left = <<>>
    /\ map' = thread[t].work
    /\ thread' = [thread EXCEPT ![t].pc = "applied", ![t].work = EmptyMap]
    /\ UNCHANGED <<revision, log, snapshots, answers, otherFiles>>

Outcome == [conflict |-> "CONFLICT", rejected |-> "REJECTED",
            applied |-> "APPLIED"]

\* Mutant of Record: the revision is bumped for a rejected batch too.
RecordBumping(t) ==
    /\ thread[t].pc \in DOMAIN Outcome
    /\ LET cmd == thread[t].cmd
           rev == thread[t].rev + 1
       IN  IF Logged(cmd)
           THEN Raise(t) /\ UNCHANGED <<revision, log>>
           ELSE /\ revision' = rev
                /\ log' = [log EXCEPT ![cmd] =
                            [status |-> Outcome[thread[t].pc], rev |-> rev]]
                /\ Answer(t, Outcome[thread[t].pc], rev)
    /\ UNCHANGED <<map, snapshots, otherFiles>>

\* The transaction after the batch: the revision, if it was applied, and the
\* record.  operation_id is unique: a second record is an error and undoes both.
Record(t) ==
    /\ thread[t].pc \in DOMAIN Outcome
    /\ LET cmd == thread[t].cmd
           applied == Serves(t, "applied")
           rev == IF applied THEN thread[t].rev + 1 ELSE thread[t].rev
       IN  IF Logged(cmd)
           THEN Raise(t) /\ UNCHANGED <<revision, log>>
           ELSE /\ revision' = IF applied THEN rev ELSE revision
                /\ log' = [log EXCEPT ![cmd] =
                            [status |-> Outcome[thread[t].pc], rev |-> rev]]
                /\ Answer(t, Outcome[thread[t].pc], rev)
    /\ UNCHANGED <<map, snapshots, otherFiles>>

ApplyStep(t) ==
    \/ LookUp(t) \/ CompareRevision(t)
    \/ OpenSavepoint(t) \/ ApplyNext(t) \/ Release(t)
    \/ Record(t)
-----------------------------------------------------------------------------
(* approve: the revision, the nodes and the edges are three statements. *)

CompareApproved(t) ==
    /\ Serves(t, "approve")
    /\ IF Body(t).base # revision
       THEN Answer(t, "CONFLICT", 0)
       ELSE /\ thread' = [thread EXCEPT ![t].pc = "nodes", ![t].rev = revision]
            /\ UNCHANGED answers
    /\ UNCHANGED <<designDb, otherFiles>>

ReadNodes(t) ==
    /\ Serves(t, "nodes")
    /\ thread' = [thread EXCEPT ![t].pc = "edges",
                                ![t].work = [map EXCEPT !.edges = {}]]
    /\ UNCHANGED <<designDb, answers, otherFiles>>

\* The snapshot is named after its content: the same content is one snapshot.
ReadEdgesAndApprove(t) ==
    /\ Serves(t, "edges")
    /\ snapshots' = snapshots \cup
            {[rev |-> thread[t].rev,
              map |-> [thread[t].work EXCEPT !.edges = map.edges]]}
    /\ Answer(t, "APPLIED", thread[t].rev)
    /\ UNCHANGED <<map, revision, log, otherFiles>>

ApproveStep(t) ==
    CompareApproved(t) \/ ReadNodes(t) \/ ReadEdgesAndApprove(t)

DesignStep(t) == ApplyStep(t) \/ ApproveStep(t)
=============================================================================
